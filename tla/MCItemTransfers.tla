--------------------------- MODULE MCItemTransfers ---------------------------
EXTENDS ItemTransfers

CONSTANTS A, B, G, L, M1, M2, BagA, BagB, BagC, R1, R2, R3, R4, R5, R6

MCPlayerOrder == <<A, B>>
MCItemOrder == <<G, L, M1, M2, BagA, BagB, BagC, R1, R2, R3, R4, R5, R6>>

MCKind ==
    (G :> "rifle") @@ (L :> "launcher") @@ (M1 :> "magazine") @@ (M2 :> "magazine")
        @@ (BagA :> "bag") @@ (BagB :> "bag")
        @@ (BagC :> "bag") @@ [r \in {R1, R2, R3, R4, R5, R6} |-> "rocket"]

\* A has a rifle, whose magazine is spent or not, and a full one with a rocket
\* in the bag, in which there is another bag. B has a launcher and rockets. A rocket lies between them.
MCStartInside ==
    (<<"PRIMARY_HAND", A>> :> <<G>>) @@ (<<"GUN_DETACHABLE_MAGAZINE", G>> :> <<M1>>)
        @@ (<<"BACK", A>> :> <<BagA>>) @@ (<<"ITEM_DEPOSIT", BagA>> :> <<M2, R1, BagC>>)
        @@ (<<"PRIMARY_HAND", B>> :> <<L>>) @@ (<<"BACK", B>> :> <<BagB>>)
        @@ (<<"ITEM_DEPOSIT", BagB>> :> <<R2>>)

MCStartCharges ==
    {[r \in {R1, R2, R3, R4, R5, R6} |-> CASE r = R2 -> n [] r \in {R1, R3} -> 1 [] OTHER -> 0] : n \in 2..3}

MCStartRounds == {[m \in {M1, M2} |-> IF m = M2 THEN 2 ELSE n] : n \in 0..1}

=============================================================================
