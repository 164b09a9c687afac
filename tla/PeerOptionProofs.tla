-------------------------- MODULE PeerOptionProofs --------------------------
(***************************************************************************)
(* Proofs about HoldingReservation and PeerOption, for any holdings, keys, *)
(* contracts and quantities.                                               *)
(***************************************************************************)
EXTENDS PeerOption, FiniteSetTheorems, TLAPS

-----------------------------------------------------------------------------
(* Totals *)

(* The units of all values but one, and of one value. *)
Others(f, x) == UNION {{y} \X (1 .. f[y]) : y \in DOMAIN f \ {x}}
Own(f, x) == {x} \X (1 .. f[x])

(* The units of a function over any part of its domain are finitely many. *)
LEMMA UnitsFinite ==
    ASSUME NEW S, IsFiniteSet(S), NEW f, \A y \in S : f[y] \in Nat
    PROVE  IsFiniteSet(UNION {{y} \X (1 .. f[y]) : y \in S})
<1> DEFINE U == {{y} \X (1 .. f[y]) : y \in S}
           g == [y \in S |-> {y} \X (1 .. f[y])]
<1>1. g \in Surjection(S, U)
  BY DEF Surjection
<1>2. ASSUME NEW y \in S PROVE IsFiniteSet({y} \X (1 .. f[y]))
  <2>1. f[y] \in Int /\ 1 \in Int
    OBVIOUS
  <2>2. IsFiniteSet(1 .. f[y]) /\ IsFiniteSet({y})
    BY <2>1, FS_Interval, FS_Singleton
  <2> QED BY <2>2, FS_Product
<1>3. \A u \in U : IsFiniteSet(u)
  BY <1>2
<1> HIDE DEF U, g
<1>4. IsFiniteSet(U)
  BY <1>1, FS_Surjection
<1>5. IsFiniteSet(UNION U)
  BY <1>3, <1>4, FS_UNION
<1> QED BY <1>5 DEF U

(* One value counts for itself. *)
LEMMA OwnCounted ==
    ASSUME NEW f, NEW x, f[x] \in Nat
    PROVE  IsFiniteSet(Own(f, x)) /\ Cardinality(Own(f, x)) = f[x]
<1>1. 1 \in Int /\ f[x] \in Int
  OBVIOUS
<1>2. IsFiniteSet(1 .. f[x]) /\ Cardinality(1 .. f[x]) = f[x]
  BY SMTT(40), <1>1, FS_Interval
<1>3. IsFiniteSet({x}) /\ Cardinality({x}) = 1
  BY FS_Singleton
<1>4. IsFiniteSet(Own(f, x)) /\ Cardinality(Own(f, x)) = 1 * Cardinality(1 .. f[x])
  BY <1>2, <1>3, FS_Product DEF Own
<1> QED BY <1>1, <1>2, <1>4

(* A total is one value and the others. *)
LEMMA TotalSplit ==
    ASSUME NEW D, IsFiniteSet(D), NEW f \in [D -> Nat], NEW x \in D
    PROVE  /\ Cardinality(Others(f, x)) \in Nat
           /\ Total(f) = Cardinality(Others(f, x)) + f[x]
<1>1. IsFiniteSet(Others(f, x))
  <2>1. IsFiniteSet(D \ {x}) /\ \A y \in D \ {x} : f[y] \in Nat
    BY FS_RemoveElement
  <2>2. Others(f, x) = UNION {{y} \X (1 .. f[y]) : y \in D \ {x}}
    BY DEF Others
  <2> QED BY <2>1, <2>2, UnitsFinite
<1>2. IsFiniteSet(Own(f, x)) /\ Cardinality(Own(f, x)) = f[x]
  BY OwnCounted
<1>3. UNION {{y} \X (1 .. f[y]) : y \in DOMAIN f} = Others(f, x) \cup Own(f, x)
  BY DEF Others, Own
<1>4. Others(f, x) \cap Own(f, x) = {}
  BY DEF Others, Own
<1>5. /\ Cardinality(Others(f, x)) \in Nat
      /\ Total(f) = Cardinality(Others(f, x) \cup Own(f, x))
  BY <1>1, <1>3, FS_CardinalityType DEF Total
<1>6. Cardinality(Others(f, x) \cup Own(f, x))
        = Cardinality(Others(f, x)) + Cardinality(Own(f, x)) - Cardinality({})
  BY <1>1, <1>2, <1>4, FS_Union
<1>7. Cardinality({}) = 0 /\ f[x] \in Nat
  BY FS_EmptySet
<1> QED BY <1>2, <1>5, <1>6, <1>7

(* A total is a number, and bounds each value. *)
LEMMA TotalType ==
    ASSUME NEW D, IsFiniteSet(D), NEW f \in [D -> Nat]
    PROVE  Total(f) \in Nat /\ \A x \in D : f[x] <= Total(f)
<1>1. IsFiniteSet(UNION {{y} \X (1 .. f[y]) : y \in DOMAIN f})
  BY UnitsFinite
<1>2. Total(f) \in Nat
  BY <1>1, FS_CardinalityType DEF Total
<1>3. ASSUME NEW x \in D PROVE f[x] <= Total(f)
  <2>1. Cardinality(Others(f, x)) \in Nat /\ f[x] \in Nat
        /\ Total(f) = Cardinality(Others(f, x)) + f[x]
    BY TotalSplit
  <2> QED BY <2>1
<1> QED BY <1>2, <1>3

(* Changing one value changes the total by as much. *)
LEMMA TotalChange ==
    ASSUME NEW D, IsFiniteSet(D), NEW f \in [D -> Nat], NEW g \in [D -> Nat], NEW x \in D,
           \A y \in D \ {x} : g[y] = f[y]
    PROVE  \E rest \in Nat : Total(f) = rest + f[x] /\ Total(g) = rest + g[x]
<1>1. Others(g, x) = Others(f, x)
  BY DEF Others
<1>2. /\ Cardinality(Others(f, x)) \in Nat
      /\ Total(f) = Cardinality(Others(f, x)) + f[x]
      /\ Total(g) = Cardinality(Others(g, x)) + g[x]
  BY TotalSplit
<1> QED BY <1>1, <1>2

(* Nothing adds up to nothing. *)
LEMMA TotalZero ==
    ASSUME NEW D, NEW f \in [D -> Nat], \A y \in D : f[y] = 0
    PROVE  Total(f) = 0
<1>1. UNION {{y} \X (1 .. f[y]) : y \in DOMAIN f} = {}
  OBVIOUS
<1> QED BY <1>1, FS_EmptySet DEF Total

-----------------------------------------------------------------------------
(* The reservation rows *)

(* A reservation row names a holding and some shares, deleted or not. *)
RowsSound ==
    /\ \A k \in Keys : res[k].status # "none" => res[k].holding \in Rows /\ res[k].quantity > 0
    /\ \A r \in severed : res[r].status # "none"

(* A settlement is of a row that exists; that of an OTC contract is of the *)
(* contract's own row and of all of it, which is what the restore relies   *)
(* on when it takes the row to be settled.                                 *)
SettlementsSound ==
    /\ \A s \in SettlementIds : stl[s] # NoSettlement =>
          stl[s].row \in Keys /\ res[stl[s].row].status # "none" /\ stl[s].quantity > 0
    /\ \A c \in OtcKeys : stl[c] # NoSettlement =>
          stl[c].row = c /\ stl[c].quantity = res[c].quantity

HoldingInv ==
    /\ HoldingTypeOK
    /\ RowsSound
    /\ SettlementsSound
    /\ ReservedMatchesRows
    /\ SharesConserved

(* The summands are numbers. *)
LEMMA SummandTypes ==
    ASSUME HoldingTypeOK
    PROVE  /\ \A r \in Keys : /\ SettlementsOf(r) \in [SettlementIds -> Nat]
                              /\ Settled(r) \in Nat /\ Outstanding(r) \in Nat
           /\ \A h \in Rows : /\ HeldBy(h) \in [Keys -> Nat]
                              /\ TakenFrom(h) \in [SettlementIds -> Nat]
                              /\ CreditedTo(h) \in [CreditIds -> Nat]
                              /\ Total(HeldBy(h)) \in Nat /\ Total(TakenFrom(h)) \in Nat
                              /\ Total(CreditedTo(h)) \in Nat
                              /\ SoldFrom(h) \in [Exercises -> Nat] /\ Total(SoldFrom(h)) \in Nat
<1> USE HoldingAssumption
<1>1. ASSUME NEW r \in Keys
      PROVE  /\ SettlementsOf(r) \in [SettlementIds -> Nat]
             /\ Settled(r) \in Nat /\ Outstanding(r) \in Nat
  <2>1. SettlementsOf(r) \in [SettlementIds -> Nat]
    BY DEF HoldingTypeOK, SettlementsOf
  <2>2. Settled(r) \in Nat
    BY <2>1, TotalType DEF Settled
  <2>3. res[r].quantity \in Nat
    BY DEF HoldingTypeOK
  <2> QED BY <2>1, <2>2, <2>3 DEF Outstanding, FloorZero
<1>2. ASSUME NEW h \in Rows
      PROVE  /\ HeldBy(h) \in [Keys -> Nat]
             /\ TakenFrom(h) \in [SettlementIds -> Nat]
             /\ CreditedTo(h) \in [CreditIds -> Nat]
             /\ SoldFrom(h) \in [Exercises -> Nat]
  <2>1. HeldBy(h) \in [Keys -> Nat]
    BY <1>1 DEF HeldBy
  <2>2. TakenFrom(h) \in [SettlementIds -> Nat]
    BY DEF HoldingTypeOK, TakenFrom
  <2>3. CreditedTo(h) \in [CreditIds -> Nat]
    BY DEF HoldingTypeOK, CreditedTo
  <2>4. SoldFrom(h) \in [Exercises -> Nat]
    BY DEF HoldingTypeOK, SoldFrom
  <2> QED BY <2>1, <2>2, <2>3, <2>4
<1> QED BY <1>1, <1>2, TotalType

(* A settlement that comes or goes counts for its own row alone. *)
LEMMA SettledChange ==
    ASSUME HoldingTypeOK, HoldingTypeOK', NEW s \in SettlementIds,
           \A t \in SettlementIds \ {s} : stl'[t] = stl[t], NEW r \in Keys
    PROVE  \E rest \in Nat :
              /\ Settled(r) = rest + (IF stl[s].row = r THEN stl[s].quantity ELSE 0)
              /\ Settled(r)' = rest + (IF stl'[s].row = r THEN stl'[s].quantity ELSE 0)
<1>1. PICK f \in [SettlementIds -> Nat] : f = SettlementsOf(r)
  BY SummandTypes
<1>2. SettlementsOf(r)' \in [SettlementIds -> Nat]
  BY DEF HoldingTypeOK, SettlementsOf
<1>3. PICK g \in [SettlementIds -> Nat] : g = SettlementsOf(r)'
  BY <1>2
<1>4. \A t \in SettlementIds \ {s} : g[t] = f[t]
  BY <1>1, <1>3 DEF SettlementsOf
<1>5. /\ f[s] = (IF stl[s].row = r THEN stl[s].quantity ELSE 0)
      /\ g[s] = (IF stl'[s].row = r THEN stl'[s].quantity ELSE 0)
  BY <1>1, <1>3 DEF SettlementsOf
<1>6. \E rest \in Nat : Total(f) = rest + f[s] /\ Total(g) = rest + g[s]
  BY <1>4, TotalChange, HoldingAssumption
<1>7. Settled(r) = Total(f) /\ Settled(r)' = Total(g)
  BY <1>1, <1>3 DEF Settled
<1> QED BY <1>5, <1>6, <1>7

(* A row that changes counts for itself in what is held. *)
LEMMA HeldChange ==
    ASSUME HoldingTypeOK, HoldingTypeOK', NEW r \in Keys,
           \A y \in Keys \ {r} : res'[y] = res[y] /\ Settled(y)' = Settled(y), NEW h \in Rows,
           UNCHANGED severed
    PROVE  \E rest \in Nat :
              /\ Total(HeldBy(h)) = rest + HeldBy(h)[r]
              /\ Total(HeldBy(h)') = rest + HeldBy(h)'[r]
<1>1. PICK f \in [Keys -> Nat] : f = HeldBy(h)
  BY SummandTypes
<1>2. HeldBy(h)' \in [Keys -> Nat]
  <2>1. ASSUME NEW y \in Keys PROVE Outstanding(y)' \in Nat
    <3>1. SettlementsOf(y)' \in [SettlementIds -> Nat]
      BY DEF HoldingTypeOK, SettlementsOf
    <3>2. PICK g : g = SettlementsOf(y)'
      OBVIOUS
    <3>3. Total(g) \in Nat /\ Settled(y)' = Total(g)
      BY <3>1, <3>2, TotalType, HoldingAssumption DEF Settled
    <3>4. res'[y].quantity \in Nat
      BY DEF HoldingTypeOK
    <3> QED BY <3>3, <3>4 DEF Outstanding, FloorZero
  <2> QED BY <2>1 DEF HeldBy
<1>3. PICK g \in [Keys -> Nat] : g = HeldBy(h)'
  BY <1>2
<1>4. \A y \in Keys \ {r} : g[y] = f[y]
  BY <1>1, <1>3 DEF HeldBy, Outstanding
<1>5. \E rest \in Nat : Total(f) = rest + f[r] /\ Total(g) = rest + g[r]
  BY <1>4, TotalChange, HoldingAssumption
<1> QED BY <1>1, <1>3, <1>5

(* The same of what was taken from a holding: rows keep their holding. *)
LEMMA TakenChange ==
    ASSUME HoldingTypeOK, HoldingTypeOK', NEW s \in SettlementIds,
           \A t \in SettlementIds \ {s} :
              stl'[t] = stl[t] /\ (stl[t] # NoSettlement =>
                                      res'[stl[t].row].holding = res[stl[t].row].holding),
           NEW h \in Rows
    PROVE  \E rest \in Nat :
              /\ Total(TakenFrom(h)) = rest + TakenFrom(h)[s]
              /\ Total(TakenFrom(h)') = rest + TakenFrom(h)'[s]
<1>1. PICK f \in [SettlementIds -> Nat] : f = TakenFrom(h)
  BY SummandTypes
<1>2. TakenFrom(h)' \in [SettlementIds -> Nat]
  BY DEF HoldingTypeOK, TakenFrom
<1>3. PICK g \in [SettlementIds -> Nat] : g = TakenFrom(h)'
  BY <1>2
<1>4. \A t \in SettlementIds \ {s} : g[t] = f[t]
  BY <1>1, <1>3 DEF TakenFrom
<1>5. \E rest \in Nat : Total(f) = rest + f[s] /\ Total(g) = rest + g[s]
  BY <1>4, TotalChange, HoldingAssumption
<1> QED BY <1>1, <1>3, <1>5

(* And of what was credited to it. *)
LEMMA CreditedChange ==
    ASSUME HoldingTypeOK, HoldingTypeOK', NEW c \in CreditIds,
           \A d \in CreditIds \ {c} : credit'[d] = credit[d], NEW h \in Rows
    PROVE  \E rest \in Nat :
              /\ Total(CreditedTo(h)) = rest + CreditedTo(h)[c]
              /\ Total(CreditedTo(h)') = rest + CreditedTo(h)'[c]
<1>1. PICK f \in [CreditIds -> Nat] : f = CreditedTo(h)
  BY SummandTypes
<1>2. CreditedTo(h)' \in [CreditIds -> Nat]
  BY DEF HoldingTypeOK, CreditedTo
<1>3. PICK g \in [CreditIds -> Nat] : g = CreditedTo(h)'
  BY <1>2
<1>4. \A d \in CreditIds \ {c} : g[d] = f[d]
  BY <1>1, <1>3 DEF CreditedTo
<1>5. \E rest \in Nat : Total(f) = rest + f[c] /\ Total(g) = rest + g[c]
  BY <1>4, TotalChange, HoldingAssumption
<1> QED BY <1>1, <1>3, <1>5

(* And of what exercised options sold of it. *)
LEMMA SoldChange ==
    ASSUME HoldingTypeOK, HoldingTypeOK', NEW e \in Exercises,
           \A d \in Exercises \ {e} : sold'[d] = sold[d], NEW h \in Rows
    PROVE  \E rest \in Nat :
              /\ Total(SoldFrom(h)) = rest + SoldFrom(h)[e]
              /\ Total(SoldFrom(h)') = rest + SoldFrom(h)'[e]
<1>1. PICK f \in [Exercises -> Nat] : f = SoldFrom(h)
  BY SummandTypes
<1>2. SoldFrom(h)' \in [Exercises -> Nat]
  BY DEF HoldingTypeOK, SoldFrom
<1>3. PICK g \in [Exercises -> Nat] : g = SoldFrom(h)'
  BY <1>2
<1>4. \A d \in Exercises \ {e} : g[d] = f[d]
  BY <1>1, <1>3 DEF SoldFrom
<1>5. \E rest \in Nat : Total(f) = rest + f[e] /\ Total(g) = rest + g[e]
  BY <1>4, TotalChange, HoldingAssumption
<1> QED BY <1>1, <1>3, <1>5

-----------------------------------------------------------------------------
(* Operations preserve the invariant *)

(* What the invariant says of one row. *)
LEMMA RowFacts ==
    ASSUME HoldingInv, NEW r \in Keys
    PROVE  /\ res[r].quantity \in Nat /\ Settled(r) \in Nat
           /\ res[r].status \in {"none", "active", "released", "settled"}
           /\ res[r].status = "none" => Settled(r) = 0
           /\ res[r].status = "settled" => Settled(r) = res[r].quantity
           /\ res[r].status \in {"active", "released"} => Settled(r) < res[r].quantity
           /\ res[r].status = "active" =>
                 /\ res[r].holding \in Rows
                 /\ Outstanding(r) = res[r].quantity - Settled(r)
<1>1. res[r].quantity \in Nat /\ Settled(r) \in Nat
      /\ res[r].status \in {"none", "active", "released", "settled"}
  BY SummandTypes DEF HoldingInv, HoldingTypeOK, cutVars
<1>2. /\ res[r].status = "none" => Settled(r) = 0
      /\ res[r].status = "settled" => Settled(r) = res[r].quantity
      /\ res[r].status \in {"active", "released"} => Settled(r) < res[r].quantity
  BY <1>1 DEF HoldingInv, SharesConserved
<1>3. res[r].status # "none" => res[r].holding \in Rows
  BY DEF HoldingInv, RowsSound
<1> QED BY <1>1, <1>2, <1>3 DEF Outstanding, FloorZero

(* What it says of one holding. *)
LEMMA HoldingFacts ==
    ASSUME HoldingInv, NEW h \in Rows
    PROVE  /\ hold[h].quantity \in Int /\ hold[h].reserved \in Nat
           /\ hold[h].reserved = Total(HeldBy(h))
           /\ h \notin undercut => hold[h].reserved <= hold[h].quantity
           /\ Total(TakenFrom(h)) \in Nat /\ Total(CreditedTo(h)) \in Nat
           /\ Total(SoldFrom(h)) \in Nat /\ shortfall[h] \in Nat
           /\ InitialQuantity[h] \in Nat
           /\ hold[h].quantity + Total(TakenFrom(h)) + Total(SoldFrom(h))
                = InitialQuantity[h] + Total(CreditedTo(h)) + shortfall[h]
<1>1. hold[h].quantity \in Int /\ hold[h].reserved \in Nat
  BY DEF HoldingInv, HoldingTypeOK, cutVars
<1>2. /\ Total(TakenFrom(h)) \in Nat /\ Total(CreditedTo(h)) \in Nat
      /\ Total(SoldFrom(h)) \in Nat /\ shortfall[h] \in Nat
  BY SummandTypes DEF HoldingInv, HoldingTypeOK, cutVars
<1> QED BY <1>1, <1>2, HoldingAssumption DEF HoldingInv, ReservedMatchesRows,
      SharesConserved

(* A step that wakes no reservation of a deleted row keeps them asleep. *)
LEMMA SeveredKept ==
    ASSUME HoldingInv, UNCHANGED cutVars,
           \A r \in severed : /\ res'[r].holding = res[r].holding
                              /\ res'[r].status = "active" => res[r].status = "active"
    PROVE  \A h \in Rows : h \notin undercut' =>
              \A r \in severed' : res'[r].holding = h => res'[r].status # "active"
BY DEF HoldingInv, ReservedMatchesRows, cutVars

(* Settlements that do not change settle what they did. *)
LEMMA SettledSame ==
    ASSUME UNCHANGED stl
    PROVE  \A r \in Keys : Settled(r)' = Settled(r)
BY DEF Settled, SettlementsOf

(* A reservation: shares that were available are held under a new row. *)
LEMMA HoldSharesKeeps ==
    ASSUME HoldingInv, NEW k \in Keys, NEW h \in Rows, NEW q \in Quantities, HoldShares(k, h, q)
    PROVE  HoldingInv'
<1>0. q \in Nat /\ q > 0
  BY HoldingAssumption
<1>1. /\ res' = [res EXCEPT ![k] = [status |-> "active", holding |-> h, quantity |-> q]]
      /\ hold' = [hold EXCEPT ![h].reserved = @ + q]
      /\ UNCHANGED <<link, stl, credit, cutVars>> /\ hold[h].quantity - hold[h].reserved >= q
  BY DEF HoldShares, Available
<1>2. res[k].status = "none"
  BY DEF HoldShares, RowsOf
<1>3. HoldingTypeOK'
  BY <1>0, <1>1 DEF HoldingInv, HoldingTypeOK, cutVars
<1>4. /\ res'[k].status = "active" /\ res'[k].holding = h /\ res'[k].quantity = q
      /\ \A y \in Keys \ {k} : res'[y] = res[y]
  BY <1>1 DEF HoldingInv, HoldingTypeOK, cutVars
<1>5. RowsSound' /\ severed' = severed /\ undercut' = undercut /\ k \notin severed
  BY <1>0, <1>1, <1>2, <1>4 DEF HoldingInv, RowsSound, HoldingTypeOK, cutVars
<1>6. \A s \in SettlementIds : stl[s] # NoSettlement => stl[s].row \in Keys \ {k}
  BY <1>2 DEF HoldingInv, SettlementsSound
<1>7. SettlementsSound'
  <2>1. \A c \in OtcKeys : c \in SettlementIds
    BY DEF SettlementIds
  <2> QED BY <1>1, <1>4, <1>6, <2>1 DEF HoldingInv, SettlementsSound
<1>8. \A r \in Keys : Settled(r)' = Settled(r)
  BY <1>1, SettledSame
<1>9. Settled(k) = 0
  BY <1>2, RowFacts
<1>10. ReservedMatchesRows'
  <2>0. \A y \in severed : res'[y] = res[y]
    BY <1>4, <1>5 DEF HoldingInv, HoldingTypeOK
  <2> SUFFICES ASSUME NEW g \in Rows
               PROVE  /\ hold'[g].reserved = Total(HeldBy(g)')
                      /\ g \notin undercut => hold'[g].reserved <= hold'[g].quantity
    BY <1>1, <1>5, <2>0, SeveredKept DEF ReservedMatchesRows
  <2>1. PICK rest \in Nat : /\ Total(HeldBy(g)) = rest + HeldBy(g)[k]
                            /\ Total(HeldBy(g)') = rest + HeldBy(g)'[k]
    BY <1>3, <1>4, <1>5, <1>8, HeldChange DEF HoldingInv
  <2>2. HeldBy(g)[k] = 0
    BY <1>2 DEF HeldBy
  <2>3. HeldBy(g)'[k] = IF g = h THEN q ELSE 0
    BY <1>0, <1>4, <1>5, <1>8, <1>9 DEF HeldBy, Outstanding, FloorZero
  <2>4. /\ hold[g].quantity \in Int /\ hold[g].reserved \in Nat
        /\ hold[g].reserved = Total(HeldBy(g)) /\ (g \notin undercut => hold[g].reserved <= hold[g].quantity)
    BY HoldingFacts
  <2>5. /\ hold'[g].quantity = hold[g].quantity
        /\ hold'[g].reserved = IF g = h THEN hold[g].reserved + q ELSE hold[g].reserved
    BY <1>1 DEF HoldingInv, HoldingTypeOK, cutVars
  <2> QED BY <1>0, <1>1, <2>1, <2>2, <2>3, <2>4, <2>5
<1>11. SharesConserved'
  <2>1. ASSUME NEW g \in Rows
        PROVE  hold'[g].quantity + Total(TakenFrom(g)') + Total(SoldFrom(g)')
                 = InitialQuantity[g] + Total(CreditedTo(g)') + shortfall'[g]
    <3>1. TakenFrom(g)' = TakenFrom(g)
      BY <1>1, <1>4, <1>6 DEF TakenFrom
    <3>2. CreditedTo(g)' = CreditedTo(g) /\ SoldFrom(g)' = SoldFrom(g) /\ shortfall' = shortfall
      BY <1>1 DEF CreditedTo, SoldFrom, cutVars
    <3>3. hold'[g].quantity = hold[g].quantity
      BY <1>1 DEF HoldingInv, HoldingTypeOK, cutVars
    <3> QED BY <3>1, <3>2, <3>3, HoldingFacts
  <2>2. ASSUME NEW r \in Keys
        PROVE  CASE res'[r].status = "none" -> Settled(r)' = 0
                 [] res'[r].status = "settled" -> Settled(r)' = res'[r].quantity
                 [] OTHER -> Settled(r)' < res'[r].quantity
    <3>1. CASE r = k
      BY <1>0, <1>4, <1>8, <1>9, <3>1
    <3>2. CASE r # k
      BY <1>4, <1>8, <3>2, RowFacts
    <3> QED BY <3>1, <3>2
  <2> QED BY <2>1, <2>2 DEF SharesConserved
<1> QED BY <1>3, <1>5, <1>7, <1>10, <1>11 DEF HoldingInv

(* A release: what the row still held is free again. *)
LEMMA ReleaseRowKeeps ==
    ASSUME HoldingInv, NEW r \in Keys, ReleaseRow(r)
    PROVE  HoldingInv'
<1> DEFINE h == res[r].holding
<1>1. /\ res[r].status = "active" /\ r \notin severed
      /\ hold' = [hold EXCEPT ![h].reserved = FloorZero(@ - Outstanding(r))]
      /\ res' = [res EXCEPT ![r].status = "released"]
      /\ UNCHANGED <<link, stl, credit, cutVars>>
  BY DEF ReleaseRow
<1>2. /\ h \in Rows /\ Settled(r) \in Nat /\ res[r].quantity \in Nat
      /\ Settled(r) < res[r].quantity /\ Outstanding(r) = res[r].quantity - Settled(r)
  BY <1>1, RowFacts
<1>3. HoldingTypeOK'
  <2>1. FloorZero(hold[h].reserved - Outstanding(r)) \in Nat
    BY <1>2 DEF HoldingInv, HoldingTypeOK, cutVars, FloorZero
  <2>2. PICK n \in Nat : n = FloorZero(hold[h].reserved - Outstanding(r))
    BY <2>1
  <2>3. hold' = [hold EXCEPT ![h].reserved = n]
    BY <1>1, <2>2
  <2> QED BY SMTT(40), <1>1, <1>2, <2>3 DEF HoldingInv, HoldingTypeOK, cutVars
<1>4. /\ res'[r].status = "released" /\ res'[r].holding = h /\ res'[r].quantity = res[r].quantity
      /\ \A y \in Keys \ {r} : res'[y] = res[y]
  BY <1>1 DEF HoldingInv, HoldingTypeOK, cutVars
<1>5. RowsSound' /\ severed' = severed /\ undercut' = undercut
  <2>1. severed' = severed /\ undercut' = undercut
    BY <1>1 DEF cutVars
  <2> QED BY <1>1, <1>2, <1>4, <2>1 DEF HoldingInv, RowsSound
<1>6. \A y \in Keys : /\ res'[y].holding = res[y].holding /\ res'[y].quantity = res[y].quantity
                      /\ res[y].status # "none" => res'[y].status # "none"
  BY <1>4
<1>7. SettlementsSound'
  <2>1. \A c \in OtcKeys : c \in Keys
    BY DEF Keys
  <2> QED BY <1>1, <1>6, <2>1 DEF HoldingInv, SettlementsSound
<1>8. \A y \in Keys : Settled(y)' = Settled(y)
  BY <1>1, SettledSame
<1>9. ASSUME NEW g \in Rows
      PROVE  /\ hold'[g].quantity = hold[g].quantity
             /\ hold'[g].reserved = Total(HeldBy(g)') /\ (g \notin undercut => hold'[g].reserved <= hold'[g].quantity)
  <2>1. PICK rest \in Nat : /\ Total(HeldBy(g)) = rest + HeldBy(g)[r]
                            /\ Total(HeldBy(g)') = rest + HeldBy(g)'[r]
    BY <1>3, <1>4, <1>5, <1>8, HeldChange DEF HoldingInv
  <2>2. HeldBy(g)[r] = IF g = h THEN Outstanding(r) ELSE 0
    BY <1>1 DEF HeldBy
  <2>3. HeldBy(g)'[r] = 0
    BY <1>4 DEF HeldBy
  <2>4. /\ hold[g].quantity \in Int /\ hold[g].reserved \in Nat
        /\ hold[g].reserved = Total(HeldBy(g)) /\ (g \notin undercut => hold[g].reserved <= hold[g].quantity)
    BY HoldingFacts
  <2>5. /\ hold'[g].quantity = hold[g].quantity
        /\ hold'[g].reserved = IF g = h THEN FloorZero(hold[g].reserved - Outstanding(r))
                               ELSE hold[g].reserved
    BY <1>1, <1>2 DEF HoldingInv, HoldingTypeOK, cutVars
  <2> HIDE DEF h
  <2> QED BY <1>2, <2>1, <2>2, <2>3, <2>4, <2>5 DEF FloorZero
<1>10. SharesConserved'
  <2>1. ASSUME NEW g \in Rows
        PROVE  hold'[g].quantity + Total(TakenFrom(g)') + Total(SoldFrom(g)')
                 = InitialQuantity[g] + Total(CreditedTo(g)') + shortfall'[g]
    <3>1. TakenFrom(g)' = TakenFrom(g)
      BY <1>1, <1>6 DEF TakenFrom, HoldingInv, SettlementsSound
    <3>2. CreditedTo(g)' = CreditedTo(g) /\ SoldFrom(g)' = SoldFrom(g) /\ shortfall' = shortfall
      BY <1>1 DEF CreditedTo, SoldFrom, cutVars
    <3> QED BY <1>9, <3>1, <3>2, HoldingFacts
  <2>2. ASSUME NEW y \in Keys
        PROVE  CASE res'[y].status = "none" -> Settled(y)' = 0
                 [] res'[y].status = "settled" -> Settled(y)' = res'[y].quantity
                 [] OTHER -> Settled(y)' < res'[y].quantity
    <3>1. CASE y = r
      BY <1>2, <1>4, <1>8, <3>1
    <3>2. CASE y # r
      BY <1>4, <1>8, <3>2, RowFacts
    <3> QED BY <3>1, <3>2
  <2> QED BY <2>1, <2>2 DEF SharesConserved
<1>11. ReservedMatchesRows'
  <2>1. \A y \in severed : res'[y] = res[y]
    BY <1>1, <1>4 DEF HoldingInv, HoldingTypeOK
  <2> QED BY <1>1, <1>5, <1>9, <2>1, SeveredKept DEF ReservedMatchesRows
<1> QED BY <1>3, <1>5, <1>7, <1>10, <1>11 DEF HoldingInv

(* A settlement: shares leave the holding and its hold together. *)
LEMMA SettleRowKeeps ==
    ASSUME HoldingInv, NEW r \in Keys, NEW s \in SettlementIds, NEW q \in Nat, q > 0,
           s \in OtcKeys => (r = s /\ q = res[r].quantity), SettleRow(r, s, q)
    PROVE  HoldingInv'
<1> DEFINE h == res[r].holding
<1>1. /\ res[r].status = "active" /\ r \notin severed
      /\ Settled(r) + q <= res[r].quantity /\ stl[s] = NoSettlement
      /\ stl' = [stl EXCEPT ![s] = [row |-> r, quantity |-> q]]
      /\ hold' = [hold EXCEPT ![h] = [quantity |-> @.quantity - q,
                                      reserved |-> FloorZero(@.reserved - q)]]
      /\ res' = [res EXCEPT ![r].status =
                    IF Settled(r) + q = res[r].quantity THEN "settled" ELSE @]
      /\ UNCHANGED <<link, credit, cutVars>>
  BY DEF SettleRow, SettleAccepts
<1>2. /\ h \in Rows /\ Settled(r) \in Nat /\ res[r].quantity \in Nat
      /\ Outstanding(r) = res[r].quantity - Settled(r)
  BY <1>1, RowFacts
<1>3. HoldingTypeOK'
  <2>1. hold' \in [Rows -> [quantity : Int, reserved : Nat]]
    <3>1. hold[h].quantity - q \in Int /\ FloorZero(hold[h].reserved - q) \in Nat
      BY <1>2 DEF HoldingInv, HoldingTypeOK, cutVars, FloorZero
    <3>2. PICK m \in Int, n \in Nat : m = hold[h].quantity - q /\ n = FloorZero(hold[h].reserved - q)
      BY <3>1
    <3>3. hold' = [hold EXCEPT ![h] = [quantity |-> m, reserved |-> n]]
      BY <1>1, <3>2
    <3> QED BY <3>3 DEF HoldingInv, HoldingTypeOK, cutVars
  <2>2. res' \in [Keys -> [status : {"none", "active", "released", "settled"},
                           holding : Rows \cup {None}, quantity : Nat]]
    BY <1>1 DEF HoldingInv, HoldingTypeOK, cutVars
  <2>3. stl' \in [SettlementIds -> [row : Keys \cup {None}, quantity : Nat]]
    BY <1>1 DEF HoldingInv, HoldingTypeOK, cutVars
  <2> QED BY <1>1, <2>1, <2>2, <2>3 DEF HoldingInv, HoldingTypeOK, cutVars
<1>4. /\ res'[r].status = IF Settled(r) + q = res[r].quantity THEN "settled" ELSE "active"
      /\ res'[r].holding = h /\ res'[r].quantity = res[r].quantity
      /\ \A y \in Keys \ {r} : res'[y] = res[y]
  BY <1>1 DEF HoldingInv, HoldingTypeOK, cutVars
<1>5. RowsSound' /\ severed' = severed /\ undercut' = undercut
  <2>1. severed' = severed /\ undercut' = undercut
    BY <1>1 DEF cutVars
  <2> QED BY <1>1, <1>2, <1>4, <2>1 DEF HoldingInv, RowsSound
<1>6. \A y \in Keys : /\ res'[y].holding = res[y].holding /\ res'[y].quantity = res[y].quantity
                      /\ res[y].status # "none" => res'[y].status # "none"
  BY <1>4
<1>7. /\ stl'[s].row = r /\ stl'[s].quantity = q /\ \A t \in SettlementIds \ {s} : stl'[t] = stl[t]
      /\ stl[s].row = None /\ stl[s].quantity = 0
  BY <1>1 DEF HoldingInv, HoldingTypeOK, cutVars, NoSettlement
<1>8. SettlementsSound'
  <2>1. \A c \in OtcKeys : c \in Keys /\ c \in SettlementIds
    BY DEF Keys, SettlementIds
  <2>2. \A t \in SettlementIds : stl'[t] # NoSettlement =>
          stl'[t].row \in Keys /\ res'[stl'[t].row].status # "none" /\ stl'[t].quantity > 0
    BY <1>1, <1>6, <1>7 DEF HoldingInv, SettlementsSound
  <2>3. \A c \in OtcKeys : stl'[c] # NoSettlement =>
          stl'[c].row = c /\ stl'[c].quantity = res'[c].quantity
    BY <1>6, <1>7, <2>1 DEF HoldingInv, SettlementsSound
  <2> QED BY <2>2, <2>3 DEF SettlementsSound
<1>9. ASSUME NEW y \in Keys
      PROVE  Settled(y)' = IF y = r THEN Settled(r) + q ELSE Settled(y)
  <2>1. PICK rest \in Nat :
            /\ Settled(y) = rest + (IF stl[s].row = y THEN stl[s].quantity ELSE 0)
            /\ Settled(y)' = rest + (IF stl'[s].row = y THEN stl'[s].quantity ELSE 0)
    BY <1>3, <1>7, SettledChange DEF HoldingInv
  <2> QED BY <1>7, <2>1, HoldingAssumption
<1>10. ASSUME NEW g \in Rows
       PROVE  /\ hold'[g].quantity = (IF g = h THEN hold[g].quantity - q ELSE hold[g].quantity)
              /\ hold'[g].reserved = Total(HeldBy(g)') /\ (g \notin undercut => hold'[g].reserved <= hold'[g].quantity)
  <2>1. PICK rest \in Nat : /\ Total(HeldBy(g)) = rest + HeldBy(g)[r]
                            /\ Total(HeldBy(g)') = rest + HeldBy(g)'[r]
    BY <1>3, <1>4, <1>5, <1>9, HeldChange DEF HoldingInv
  <2>2. HeldBy(g)[r] = IF g = h THEN res[r].quantity - Settled(r) ELSE 0
    BY <1>1, <1>2 DEF HeldBy
  <2>3. HeldBy(g)'[r] = IF g = h THEN res[r].quantity - (Settled(r) + q) ELSE 0
    <3>1. Settled(r)' = Settled(r) + q /\ res'[r].quantity = res[r].quantity
      BY <1>4, <1>9
    <3>2. Outstanding(r)' = res[r].quantity - (Settled(r) + q)
      BY <1>1, <1>2, <3>1 DEF Outstanding, FloorZero
    <3>3. HeldBy(g)'[r] = IF res'[r].status = "active" /\ res'[r].holding = g
                          THEN Outstanding(r)' ELSE 0
      BY <1>1, <1>5 DEF HeldBy
    <3> HIDE DEF h
    <3> QED BY <1>2, <1>4, <3>2, <3>3
  <2>4. /\ hold[g].quantity \in Int /\ hold[g].reserved \in Nat
        /\ hold[g].reserved = Total(HeldBy(g)) /\ (g \notin undercut => hold[g].reserved <= hold[g].quantity)
    BY HoldingFacts
  <2>5. /\ hold'[g].quantity = (IF g = h THEN hold[g].quantity - q ELSE hold[g].quantity)
        /\ hold'[g].reserved = IF g = h THEN FloorZero(hold[g].reserved - q)
                               ELSE hold[g].reserved
    BY <1>1, <1>2 DEF HoldingInv, HoldingTypeOK, cutVars
  <2> HIDE DEF h
  <2>6. CASE g = h
    <3>1. hold[g].reserved >= q /\ hold'[g].reserved = hold[g].reserved - q
      BY <1>1, <1>2, <2>1, <2>2, <2>4, <2>5, <2>6 DEF FloorZero
    <3> QED BY <1>1, <1>2, <2>1, <2>2, <2>3, <2>4, <2>5, <2>6, <3>1
  <2>7. CASE g # h
    BY <2>1, <2>2, <2>3, <2>4, <2>5, <2>7
  <2> QED BY <2>6, <2>7
<1>11. SharesConserved'
  <2>1. ASSUME NEW g \in Rows
        PROVE  hold'[g].quantity + Total(TakenFrom(g)') + Total(SoldFrom(g)')
                 = InitialQuantity[g] + Total(CreditedTo(g)') + shortfall'[g]
    <3>1. PICK rest \in Nat : /\ Total(TakenFrom(g)) = rest + TakenFrom(g)[s]
                              /\ Total(TakenFrom(g)') = rest + TakenFrom(g)'[s]
      <4>1. \A t \in SettlementIds \ {s} :
              stl'[t] = stl[t] /\ (stl[t] # NoSettlement =>
                                      res'[stl[t].row].holding = res[stl[t].row].holding)
        BY <1>6, <1>7 DEF HoldingInv, SettlementsSound
      <4> QED BY <1>3, <4>1, TakenChange DEF HoldingInv
    <3>2. TakenFrom(g)[s] = 0
      BY <1>1 DEF TakenFrom
    <3>3. TakenFrom(g)'[s] = IF g = h THEN q ELSE 0
      <4>1. stl'[s] # NoSettlement
        BY <1>7, HoldingAssumption DEF NoSettlement
      <4> QED BY <1>4, <1>7, <4>1 DEF TakenFrom
    <3>4. CreditedTo(g)' = CreditedTo(g) /\ SoldFrom(g)' = SoldFrom(g) /\ shortfall' = shortfall
      BY <1>1 DEF CreditedTo, SoldFrom, cutVars
    <3>5. /\ hold[g].quantity \in Int /\ Total(TakenFrom(g)) \in Nat
          /\ Total(CreditedTo(g)) \in Nat /\ InitialQuantity[g] \in Nat
          /\ Total(SoldFrom(g)) \in Nat /\ shortfall[g] \in Nat
          /\ hold[g].quantity + Total(TakenFrom(g)) + Total(SoldFrom(g))
               = InitialQuantity[g] + Total(CreditedTo(g)) + shortfall[g]
      BY HoldingFacts
    <3>6. hold'[g].quantity = (IF g = h THEN hold[g].quantity - q ELSE hold[g].quantity)
      BY <1>10
    <3> HIDE DEF h
    <3> QED BY <3>1, <3>2, <3>3, <3>4, <3>5, <3>6
  <2>2. ASSUME NEW y \in Keys
        PROVE  CASE res'[y].status = "none" -> Settled(y)' = 0
                 [] res'[y].status = "settled" -> Settled(y)' = res'[y].quantity
                 [] OTHER -> Settled(y)' < res'[y].quantity
    <3>1. CASE y = r
      BY <1>1, <1>2, <1>4, <1>9, <3>1
    <3>2. CASE y # r
      BY <1>4, <1>9, <3>2, RowFacts
    <3> QED BY <3>1, <3>2
  <2> QED BY <2>1, <2>2 DEF SharesConserved
<1>12. ReservedMatchesRows'
  <2>1. \A y \in severed : res'[y] = res[y]
    BY <1>1, <1>4 DEF HoldingInv, HoldingTypeOK
  <2> QED BY <1>1, <1>5, <1>10, <2>1, SeveredKept DEF ReservedMatchesRows
<1> QED BY <1>3, <1>5, <1>8, <1>11, <1>12 DEF HoldingInv

(* The row an order, an OTC contract or a vote finds is its own. *)
LEMMA OwnRow ==
    ASSUME HoldingTypeOK, NEW k \in Keys, k \notin PeerKeys, NEW r \in RowsOf(k)
    PROVE  r = k /\ res[r].status # "none"
<1>1. r = k \/ (r \in TxKeys /\ link[r] = k)
  BY DEF RowsOf
<1>2. r \in TxKeys => link[r] \in PeerKeys \cup {None}
  BY DEF HoldingTypeOK
<1> QED BY <1>1, <1>2, HoldingAssumption DEF RowsOf

(* A restore undoes a consume: the settlement was of the whole row, so the *)
(* row was settled and holds all its shares again.                         *)
LEMMA RestoreKeeps ==
    ASSUME HoldingInv, NEW c \in OtcKeys, RestoreForOTCContract(c)
    PROVE  HoldingInv' /\ \A y \in Keys \ {c} : res'[y] = res[y]
<1> DEFINE h == res[c].holding
           q == stl[c].quantity
<1>1. c \in Keys /\ c \in SettlementIds /\ c \notin PeerKeys
  BY HoldingAssumption DEF Keys, SettlementIds
<1>2. /\ stl[c] # NoSettlement /\ c \notin severed
      /\ hold' = [hold EXCEPT ![h] = [quantity |-> @.quantity + q, reserved |-> @.reserved + q]]
      /\ res' = [res EXCEPT ![c].status = IF @ = "settled" THEN "active" ELSE @]
      /\ stl' = [stl EXCEPT ![c] = NoSettlement]
      /\ UNCHANGED <<link, credit, cutVars>>
  <2>1. PICK r \in RowsOf(c) \ severed :
        /\ hold' = [hold EXCEPT ![res[r].holding] =
                       [quantity |-> @.quantity + stl[c].quantity,
                        reserved |-> @.reserved + stl[c].quantity]]
        /\ res' = [res EXCEPT ![r].status = IF @ = "settled" THEN "active" ELSE @]
    BY DEF RestoreForOTCContract
  <2>2. r = c
    BY <1>1, OwnRow DEF HoldingInv
  <2> QED BY <2>1, <2>2 DEF RestoreForOTCContract
<1>3. /\ stl[c].row = c /\ q = res[c].quantity /\ q \in Nat /\ q > 0
      /\ res[c].status # "none" /\ h \in Rows
  BY <1>1, <1>2 DEF HoldingInv, SettlementsSound, RowsSound, HoldingTypeOK
<1>4. Settled(c) = q /\ res[c].status = "settled"
  <2>1. SettlementsOf(c) \in [SettlementIds -> Nat] /\ Settled(c) = Total(SettlementsOf(c))
    BY <1>1, SummandTypes DEF HoldingInv, Settled
  <2>2. SettlementsOf(c)[c] = q
    BY <1>1, <1>3 DEF SettlementsOf
  <2>3. SettlementsOf(c)[c] <= Total(SettlementsOf(c))
    BY <1>1, <2>1, TotalType, HoldingAssumption
  <2>4. Settled(c) >= q
    BY <1>1, <1>3, <2>1, <2>2, <2>3, SummandTypes DEF HoldingInv
  <2>5. /\ Settled(c) \in Nat /\ res[c].status \in {"none", "active", "released", "settled"}
        /\ res[c].status = "settled" => Settled(c) = res[c].quantity
        /\ res[c].status \in {"active", "released"} => Settled(c) < res[c].quantity
    BY <1>1, RowFacts
  <2> HIDE DEF q
  <2> QED BY <1>3, <2>4, <2>5
<1>5. HoldingTypeOK'
  <2>1. hold' \in [Rows -> [quantity : Int, reserved : Nat]]
    <3>1. PICK m \in Int, n \in Nat : m = hold[h].quantity + q /\ n = hold[h].reserved + q
      BY <1>3 DEF HoldingInv, HoldingTypeOK, cutVars
    <3>2. hold' = [hold EXCEPT ![h] = [quantity |-> m, reserved |-> n]]
      BY <1>2, <3>1
    <3> QED BY <3>2 DEF HoldingInv, HoldingTypeOK, cutVars
  <2>2. res' \in [Keys -> [status : {"none", "active", "released", "settled"},
                           holding : Rows \cup {None}, quantity : Nat]]
    <3>1. res' = [res EXCEPT ![c].status = "active"]
      BY <1>2, <1>4
    <3>2. res \in [Keys -> [status : {"none", "active", "released", "settled"},
                            holding : Rows \cup {None}, quantity : Nat]]
      BY DEF HoldingInv, HoldingTypeOK
    <3> HIDE DEF h, q
    <3> QED BY <1>1, <3>1, <3>2
  <2>3. stl' \in [SettlementIds -> [row : Keys \cup {None}, quantity : Nat]]
    BY <1>1, <1>2 DEF HoldingInv, HoldingTypeOK, cutVars, NoSettlement
  <2> QED BY <1>2, <2>1, <2>2, <2>3 DEF HoldingInv, HoldingTypeOK, cutVars
<1>6. /\ res'[c].status = "active" /\ res'[c].holding = h /\ res'[c].quantity = q
      /\ \A y \in Keys \ {c} : res'[y] = res[y]
  BY <1>1, <1>2, <1>3, <1>4 DEF HoldingInv, HoldingTypeOK, cutVars
<1>7. RowsSound' /\ severed' = severed /\ undercut' = undercut
  <2>1. severed' = severed /\ undercut' = undercut
    BY <1>2 DEF cutVars
  <2> QED BY <1>2, <1>3, <1>6, <2>1 DEF HoldingInv, RowsSound, HoldingTypeOK
<1>8. \A y \in Keys : /\ res'[y].holding = res[y].holding /\ res'[y].quantity = res[y].quantity
                      /\ res[y].status # "none" => res'[y].status # "none"
  BY <1>3, <1>6
<1>9. stl'[c] = NoSettlement /\ \A t \in SettlementIds \ {c} : stl'[t] = stl[t]
  BY <1>1, <1>2 DEF HoldingInv, HoldingTypeOK, cutVars
<1>10. SettlementsSound'
  <2>1. \A d \in OtcKeys : d \in Keys /\ d \in SettlementIds
    BY DEF Keys, SettlementIds
  <2>2. \A t \in SettlementIds : stl'[t] # NoSettlement =>
          stl'[t].row \in Keys /\ res'[stl'[t].row].status # "none" /\ stl'[t].quantity > 0
    BY <1>8, <1>9 DEF HoldingInv, SettlementsSound
  <2>3. \A d \in OtcKeys : stl'[d] # NoSettlement =>
          stl'[d].row = d /\ stl'[d].quantity = res'[d].quantity
    BY <1>8, <1>9, <2>1 DEF HoldingInv, SettlementsSound
  <2> QED BY <2>2, <2>3 DEF SettlementsSound
<1>11. ASSUME NEW y \in Keys
       PROVE  Settled(y)' = IF y = c THEN 0 ELSE Settled(y)
  <2>1. PICK rest \in Nat :
            /\ Settled(y) = rest + (IF stl[c].row = y THEN stl[c].quantity ELSE 0)
            /\ Settled(y)' = rest + (IF stl'[c].row = y THEN stl'[c].quantity ELSE 0)
    BY <1>1, <1>5, <1>9, SettledChange DEF HoldingInv
  <2>2. stl'[c].row # y
    BY <1>9, HoldingAssumption DEF NoSettlement
  <2> QED BY <1>3, <1>4, <2>1, <2>2
<1>12. ASSUME NEW g \in Rows
       PROVE  /\ hold'[g].quantity = (IF g = h THEN hold[g].quantity + q ELSE hold[g].quantity)
              /\ hold'[g].reserved = Total(HeldBy(g)') /\ (g \notin undercut => hold'[g].reserved <= hold'[g].quantity)
  <2>1. PICK rest \in Nat : /\ Total(HeldBy(g)) = rest + HeldBy(g)[c]
                            /\ Total(HeldBy(g)') = rest + HeldBy(g)'[c]
    BY <1>1, <1>5, <1>6, <1>7, <1>11, HeldChange DEF HoldingInv
  <2>2. HeldBy(g)[c] = 0
    BY <1>1, <1>4 DEF HeldBy
  <2>3. HeldBy(g)'[c] = IF g = h THEN q ELSE 0
    <3>1. Settled(c)' = 0
      BY <1>1, <1>11
    <3>2. Outstanding(c)' = q
      BY <1>3, <1>6, <3>1 DEF Outstanding, FloorZero
    <3>3. HeldBy(g)'[c] = IF res'[c].status = "active" /\ res'[c].holding = g
                          THEN Outstanding(c)' ELSE 0
      BY <1>1, <1>2, <1>7 DEF HeldBy
    <3> HIDE DEF h, q
    <3> QED BY <1>6, <3>2, <3>3
  <2>4. /\ hold[g].quantity \in Int /\ hold[g].reserved \in Nat
        /\ hold[g].reserved = Total(HeldBy(g)) /\ (g \notin undercut => hold[g].reserved <= hold[g].quantity)
    BY HoldingFacts
  <2>5. /\ hold'[g].quantity = (IF g = h THEN hold[g].quantity + q ELSE hold[g].quantity)
        /\ hold'[g].reserved = IF g = h THEN hold[g].reserved + q ELSE hold[g].reserved
    BY <1>2, <1>3 DEF HoldingInv, HoldingTypeOK, cutVars
  <2> HIDE DEF h, q
  <2> QED BY <1>3, <2>1, <2>2, <2>3, <2>4, <2>5
<1>13. SharesConserved'
  <2>1. ASSUME NEW g \in Rows
        PROVE  hold'[g].quantity + Total(TakenFrom(g)') + Total(SoldFrom(g)')
                 = InitialQuantity[g] + Total(CreditedTo(g)') + shortfall'[g]
    <3>1. PICK rest \in Nat : /\ Total(TakenFrom(g)) = rest + TakenFrom(g)[c]
                              /\ Total(TakenFrom(g)') = rest + TakenFrom(g)'[c]
      <4>1. \A t \in SettlementIds \ {c} :
              stl'[t] = stl[t] /\ (stl[t] # NoSettlement =>
                                      res'[stl[t].row].holding = res[stl[t].row].holding)
        BY <1>8, <1>9 DEF HoldingInv, SettlementsSound
      <4> QED BY <1>1, <1>5, <4>1, TakenChange DEF HoldingInv
    <3>2. TakenFrom(g)[c] = IF g = h THEN q ELSE 0
      BY <1>1, <1>2, <1>3 DEF TakenFrom
    <3>3. TakenFrom(g)'[c] = 0
      BY <1>1, <1>9 DEF TakenFrom
    <3>4. CreditedTo(g)' = CreditedTo(g) /\ SoldFrom(g)' = SoldFrom(g) /\ shortfall' = shortfall
      BY <1>2 DEF CreditedTo, SoldFrom, cutVars
    <3>5. /\ hold[g].quantity \in Int /\ Total(TakenFrom(g)) \in Nat
          /\ Total(CreditedTo(g)) \in Nat /\ InitialQuantity[g] \in Nat
          /\ Total(SoldFrom(g)) \in Nat /\ shortfall[g] \in Nat
          /\ hold[g].quantity + Total(TakenFrom(g)) + Total(SoldFrom(g))
               = InitialQuantity[g] + Total(CreditedTo(g)) + shortfall[g]
      BY HoldingFacts
    <3>6. hold'[g].quantity = (IF g = h THEN hold[g].quantity + q ELSE hold[g].quantity)
      BY <1>12
    <3> HIDE DEF h, q
    <3> QED BY <1>3, <3>1, <3>2, <3>3, <3>4, <3>5, <3>6
  <2>2. ASSUME NEW y \in Keys
        PROVE  CASE res'[y].status = "none" -> Settled(y)' = 0
                 [] res'[y].status = "settled" -> Settled(y)' = res'[y].quantity
                 [] OTHER -> Settled(y)' < res'[y].quantity
    <3>1. CASE y = c
      BY <1>3, <1>6, <1>11, <3>1
    <3>2. CASE y # c
      BY <1>6, <1>11, <3>2, RowFacts
    <3> QED BY <3>1, <3>2
  <2> QED BY <2>1, <2>2 DEF SharesConserved
<1>14. ReservedMatchesRows'
  <2>1. \A y \in severed : res'[y] = res[y]
    BY <1>2, <1>6 DEF HoldingInv, HoldingTypeOK
  <2> QED BY <1>2, <1>7, <1>12, <2>1, SeveredKept DEF ReservedMatchesRows
<1> QED BY <1>5, <1>6, <1>7, <1>10, <1>13, <1>14 DEF HoldingInv

(* A link says nothing about shares. *)
LEMMA LinkKeeps ==
    ASSUME HoldingInv, UNCHANGED <<hold, res, stl, credit, cutVars>>,
           link' \in [TxKeys -> PeerKeys \cup {None}]
    PROVE  HoldingInv'
<1>1. HoldingTypeOK' /\ RowsSound' /\ SettlementsSound'
  BY DEF HoldingInv, HoldingTypeOK, cutVars, RowsSound, SettlementsSound
<1>2. \A r \in Keys : Settled(r)' = Settled(r)
  BY SettledSame
<1>3. ASSUME NEW h \in Rows
      PROVE  /\ HeldBy(h)' = HeldBy(h) /\ TakenFrom(h)' = TakenFrom(h)
             /\ CreditedTo(h)' = CreditedTo(h) /\ SoldFrom(h)' = SoldFrom(h)
  BY <1>2 DEF HeldBy, TakenFrom, CreditedTo, SoldFrom, Outstanding, cutVars
<1>4. ReservedMatchesRows'
  BY <1>3 DEF HoldingInv, ReservedMatchesRows, cutVars
<1>5. SharesConserved'
  BY <1>2, <1>3 DEF HoldingInv, SharesConserved, cutVars
<1> QED BY <1>1, <1>4, <1>5 DEF HoldingInv

(* A credit adds its shares once. *)
LEMMA CreditKeeps ==
    ASSUME HoldingInv, NEW c \in CreditIds, NEW h \in Rows, NEW q \in Nat,
           credit[c] = NoCredit,
           credit' = [credit EXCEPT ![c] = [holding |-> h, quantity |-> q]],
           hold' = [hold EXCEPT ![h].quantity = @ + q],
           UNCHANGED <<res, link, stl, cutVars>>
    PROVE  HoldingInv'
<1>1. HoldingTypeOK'
  BY DEF HoldingInv, HoldingTypeOK, cutVars
<1>2. RowsSound' /\ SettlementsSound'
  BY DEF HoldingInv, RowsSound, SettlementsSound, cutVars
<1>3. \A r \in Keys : Settled(r)' = Settled(r)
  BY SettledSame
<1>4. ASSUME NEW g \in Rows
      PROVE  /\ hold'[g].reserved = Total(HeldBy(g)') /\ (g \notin undercut => hold'[g].reserved <= hold'[g].quantity)
             /\ hold'[g].quantity + Total(TakenFrom(g)') + Total(SoldFrom(g)')
                 = InitialQuantity[g] + Total(CreditedTo(g)') + shortfall'[g]
  <2>1. /\ HeldBy(g)' = HeldBy(g) /\ TakenFrom(g)' = TakenFrom(g)
        /\ SoldFrom(g)' = SoldFrom(g) /\ shortfall' = shortfall
    BY <1>3 DEF HeldBy, TakenFrom, SoldFrom, Outstanding, cutVars
  <2>2. PICK rest \in Nat : /\ Total(CreditedTo(g)) = rest + CreditedTo(g)[c]
                            /\ Total(CreditedTo(g)') = rest + CreditedTo(g)'[c]
    <3>1. \A d \in CreditIds \ {c} : credit'[d] = credit[d]
      BY DEF HoldingInv, HoldingTypeOK, cutVars
    <3> QED BY <1>1, <3>1, CreditedChange DEF HoldingInv
  <2>3. CreditedTo(g)[c] = 0
    BY DEF CreditedTo, NoCredit
  <2>4. CreditedTo(g)'[c] = IF g = h THEN q ELSE 0
    BY DEF CreditedTo, HoldingInv, HoldingTypeOK
  <2>5. /\ hold'[g].reserved = hold[g].reserved
        /\ hold'[g].quantity = (IF g = h THEN hold[g].quantity + q ELSE hold[g].quantity)
    BY DEF HoldingInv, HoldingTypeOK, cutVars
  <2>6. /\ hold[g].quantity \in Int /\ hold[g].reserved \in Nat
        /\ hold[g].reserved = Total(HeldBy(g)) /\ (g \notin undercut => hold[g].reserved <= hold[g].quantity)
        /\ Total(TakenFrom(g)) \in Nat /\ Total(CreditedTo(g)) \in Nat
        /\ Total(SoldFrom(g)) \in Nat /\ shortfall[g] \in Nat
        /\ InitialQuantity[g] \in Nat
        /\ hold[g].quantity + Total(TakenFrom(g)) + Total(SoldFrom(g))
             = InitialQuantity[g] + Total(CreditedTo(g)) + shortfall[g]
    BY HoldingFacts
  <2>7. /\ hold'[g].reserved = Total(HeldBy(g)')
        /\ g \notin undercut => hold'[g].reserved <= hold'[g].quantity
    BY <2>1, <2>5, <2>6
  <2>8. hold'[g].quantity + Total(TakenFrom(g)') + Total(SoldFrom(g)')
          = InitialQuantity[g] + Total(CreditedTo(g)') + shortfall'[g]
    BY <2>1, <2>2, <2>3, <2>4, <2>5, <2>6
  <2> QED BY <2>7, <2>8
<1>5. ReservedMatchesRows' /\ SharesConserved'
  <2>1. undercut' = undercut
    BY DEF cutVars
  <2>2. SharesConserved'
    BY <1>3, <1>4 DEF HoldingInv, SharesConserved
  <2> QED BY <1>4, <2>1, <2>2, SeveredKept DEF ReservedMatchesRows
<1> QED BY <1>1, <1>2, <1>5 DEF HoldingInv

(* Shares that leave a row past its reservations leave what is held as it  *)
(* was; held shares among them are on record.                              *)
LEMMA ReduceRowMatches ==
    ASSUME HoldingInv, NEW h \in Rows, NEW q \in Nat, ReduceRow(h, q), Undercuts(h, q),
           UNCHANGED <<res, stl>>
    PROVE  ReservedMatchesRows'
<1>1. \A r \in Keys : Settled(r)' = Settled(r)
  BY SettledSame
<1>2. undercut \subseteq undercut' /\ (h \notin undercut' => Available(h) >= q)
  BY DEF Undercuts, Available, HoldingInv, HoldingTypeOK
<1>3. ASSUME NEW g \in Rows
      PROVE  /\ hold'[g].reserved = Total(HeldBy(g)')
             /\ g \notin undercut' => hold'[g].reserved <= hold'[g].quantity
  <2>1. HeldBy(g)' = HeldBy(g)
    BY <1>1 DEF HeldBy, Outstanding, ReduceRow
  <2>2. /\ hold'[g].reserved = hold[g].reserved
        /\ hold'[g].quantity = IF g = h THEN hold[g].quantity - q ELSE hold[g].quantity
    BY DEF ReduceRow, HoldingInv, HoldingTypeOK
  <2>3. /\ hold[g].quantity \in Int /\ hold[g].reserved \in Nat
        /\ hold[g].reserved = Total(HeldBy(g))
        /\ g \notin undercut => hold[g].reserved <= hold[g].quantity
    BY HoldingFacts
  <2> QED BY <1>2, <2>1, <2>2, <2>3 DEF Available
<1>4. \A g \in Rows : g \notin undercut' =>
        \A r \in severed' : res'[r].holding = g => res'[r].status # "active"
  BY <1>2 DEF ReduceRow, HoldingInv, ReservedMatchesRows
<1> QED BY <1>3, <1>4 DEF ReservedMatchesRows

(* A row that is deleted holds nothing; if it held something, that is on   *)
(* record.                                                                 *)
LEMMA DeleteRowMatches ==
    ASSUME HoldingInv, NEW h \in Rows, NEW q \in Int, hold[h].quantity <= q,
           DeleteRow(h), Undercuts(h, q), UNCHANGED <<res, stl>>
    PROVE  ReservedMatchesRows'
<1>0. /\ hold[h].quantity \in Int /\ hold[h].reserved \in Nat
      /\ hold[h].reserved = Total(HeldBy(h))
  BY HoldingFacts
<1>1. \A r \in Keys : Settled(r)' = Settled(r)
  BY SettledSame
<1>2. undercut \subseteq undercut' /\ (h \notin undercut' => hold[h].reserved = 0)
  BY <1>0 DEF Undercuts, Available
<1>3. /\ severed' = severed \cup {r \in Keys : res[r].status # "none" /\ res[r].holding = h}
      /\ hold'[h] = [quantity |-> 0, reserved |-> 0]
      /\ \A g \in Rows \ {h} : hold'[g] = hold[g]
  BY DEF DeleteRow, HoldingInv, HoldingTypeOK
<1>4. ASSUME NEW g \in Rows
      PROVE  /\ hold'[g].reserved = Total(HeldBy(g)')
             /\ g \notin undercut' => hold'[g].reserved <= hold'[g].quantity
  <2>1. CASE g = h
    <3>1. HeldBy(g)' = [r \in Keys |-> 0]
      BY <1>3, <2>1 DEF HeldBy
    <3>2. PICK f \in [Keys -> Nat] : f = HeldBy(g)' /\ \A r \in Keys : f[r] = 0
      BY <3>1
    <3>3. Total(f) = 0
      BY <3>2, TotalZero
    <3> QED BY <1>3, <2>1, <3>2, <3>3
  <2>2. CASE g # h
    <3>1. HeldBy(g)' = HeldBy(g)
      BY <1>1, <1>3, <2>2 DEF HeldBy, Outstanding
    <3>2. hold'[g] = hold[g]
      BY <1>3, <2>2
    <3>3. /\ hold[g].reserved = Total(HeldBy(g))
          /\ g \notin undercut => hold[g].reserved <= hold[g].quantity
      BY HoldingFacts
    <3> QED BY <1>2, <3>1, <3>2, <3>3
  <2> QED BY <2>1, <2>2
<1>5. ASSUME NEW g \in Rows, g \notin undercut', NEW r \in severed', res[r].holding = g,
             res[r].status = "active"
      PROVE  FALSE
  <2>1. r \notin severed
    BY <1>2, <1>5 DEF HoldingInv, ReservedMatchesRows
  <2>2. r \in Keys /\ g = h
    BY <1>3, <1>5, <2>1
  <2>3. /\ res[r].quantity \in Nat /\ Settled(r) \in Nat /\ Settled(r) < res[r].quantity
        /\ Outstanding(r) = res[r].quantity - Settled(r)
    BY <1>5, <2>2, RowFacts
  <2>4. HeldBy(h)[r] = Outstanding(r)
    BY <1>5, <2>1, <2>2 DEF HeldBy
  <2>5. HeldBy(h) \in [Keys -> Nat]
    BY SummandTypes DEF HoldingInv
  <2>6. HeldBy(h)[r] <= Total(HeldBy(h))
    BY <2>2, <2>5, TotalType, HoldingAssumption
  <2> QED BY <1>0, <1>2, <1>5, <2>2, <2>3, <2>4, <2>6
<1> QED BY <1>4, <1>5 DEF ReservedMatchesRows

(* Either way the rows of reservations and settlements stay as they are. *)
LEMMA CutRowsSound ==
    ASSUME HoldingInv, NEW h \in Rows, UNCHANGED <<res, stl>>,
           UNCHANGED severed \/ DeleteRow(h)
    PROVE  RowsSound' /\ SettlementsSound' /\ severed' \subseteq Keys
BY DEF HoldingInv, RowsSound, SettlementsSound, HoldingTypeOK, DeleteRow

(* The second part of SharesConserved does not look at the holdings. *)
LEMMA CutStatuses ==
    ASSUME HoldingInv, UNCHANGED <<res, stl>>
    PROVE  \A r \in Keys :
              CASE res'[r].status = "none" -> Settled(r)' = 0
                [] res'[r].status = "settled" -> Settled(r)' = res'[r].quantity
                [] OTHER -> Settled(r)' < res'[r].quantity
<1>1. \A r \in Keys : Settled(r)' = Settled(r)
  BY SettledSame
<1> QED BY <1>1 DEF HoldingInv, SharesConserved

(* A credit that is reversed: its shares leave, but for those not found. *)
LEMMA ReversalConserves ==
    ASSUME HoldingInv, HoldingTypeOK', NEW c \in CreditIds, NEW h \in Rows, NEW q \in Nat,
           credit[c] = [holding |-> h, quantity |-> q],
           credit' = [credit EXCEPT ![c] = NoCredit],
           hold'[h].quantity - shortfall'[h] = hold[h].quantity - shortfall[h] - q,
           \A g \in Rows \ {h} :
              hold'[g].quantity = hold[g].quantity /\ shortfall'[g] = shortfall[g],
           UNCHANGED <<res, stl, sold>>
    PROVE  SharesConserved'
<1>1. ASSUME NEW g \in Rows
      PROVE  hold'[g].quantity + Total(TakenFrom(g)') + Total(SoldFrom(g)')
                = InitialQuantity[g] + Total(CreditedTo(g)') + shortfall'[g]
  <2>1. TakenFrom(g)' = TakenFrom(g) /\ SoldFrom(g)' = SoldFrom(g)
    BY DEF TakenFrom, SoldFrom
  <2>2. PICK rest \in Nat : /\ Total(CreditedTo(g)) = rest + CreditedTo(g)[c]
                            /\ Total(CreditedTo(g)') = rest + CreditedTo(g)'[c]
    <3>1. \A d \in CreditIds \ {c} : credit'[d] = credit[d]
      BY DEF HoldingInv, HoldingTypeOK
    <3> QED BY <3>1, CreditedChange DEF HoldingInv
  <2>3. CreditedTo(g)[c] = IF g = h THEN q ELSE 0
    BY DEF CreditedTo
  <2>4. CreditedTo(g)'[c] = 0
    <3>1. credit'[c] = NoCredit
      BY DEF HoldingInv, HoldingTypeOK
    <3> QED BY <3>1 DEF CreditedTo, NoCredit
  <2>5. /\ hold[g].quantity \in Int
        /\ Total(TakenFrom(g)) \in Nat /\ Total(CreditedTo(g)) \in Nat
        /\ Total(SoldFrom(g)) \in Nat /\ shortfall[g] \in Nat /\ InitialQuantity[g] \in Nat
        /\ hold[g].quantity + Total(TakenFrom(g)) + Total(SoldFrom(g))
             = InitialQuantity[g] + Total(CreditedTo(g)) + shortfall[g]
    BY HoldingFacts
  <2>6. hold'[g].quantity \in Int /\ shortfall'[g] \in Nat
    BY DEF HoldingTypeOK
  <2>7. CASE g = h
    <3>1. hold'[g].quantity - shortfall'[g] = hold[g].quantity - shortfall[g] - q
      BY <2>7
    <3>2. Total(CreditedTo(g)) = rest + q /\ Total(CreditedTo(g)') = rest
      BY <2>2, <2>3, <2>4, <2>7
    <3>3. \A a, b, t, s, i, f, d \in Int :
             (a + t + s = i + (rest + q) + f /\ b - d = a - f - q) => b + t + s = i + rest + d
      OBVIOUS
    <3> QED BY <2>1, <2>5, <2>6, <3>1, <3>2, <3>3
  <2>8. CASE g # h
    BY <2>1, <2>2, <2>3, <2>4, <2>5, <2>6, <2>8
  <2> QED BY <2>7, <2>8
<1> QED BY <1>1, CutStatuses DEF SharesConserved

(* An option that is exercised: the shares it sold leave. *)
LEMMA ExerciseConserves ==
    ASSUME HoldingInv, HoldingTypeOK', NEW e \in Exercises, NEW h \in Rows, NEW q \in Nat,
           sold[e] = NoCredit, sold' = [sold EXCEPT ![e] = [holding |-> h, quantity |-> q]],
           hold'[h].quantity = hold[h].quantity - q,
           \A g \in Rows \ {h} : hold'[g].quantity = hold[g].quantity,
           UNCHANGED <<res, stl, credit, shortfall>>
    PROVE  SharesConserved'
<1>1. ASSUME NEW g \in Rows
      PROVE  hold'[g].quantity + Total(TakenFrom(g)') + Total(SoldFrom(g)')
                = InitialQuantity[g] + Total(CreditedTo(g)') + shortfall'[g]
  <2>1. TakenFrom(g)' = TakenFrom(g) /\ CreditedTo(g)' = CreditedTo(g) /\ shortfall'[g] = shortfall[g]
    BY DEF TakenFrom, CreditedTo
  <2>2. PICK rest \in Nat : /\ Total(SoldFrom(g)) = rest + SoldFrom(g)[e]
                            /\ Total(SoldFrom(g)') = rest + SoldFrom(g)'[e]
    <3>1. \A d \in Exercises \ {e} : sold'[d] = sold[d]
      BY DEF HoldingInv, HoldingTypeOK
    <3> QED BY <3>1, SoldChange DEF HoldingInv
  <2>3. SoldFrom(g)[e] = 0
    BY DEF SoldFrom, NoCredit
  <2>4. SoldFrom(g)'[e] = IF g = h THEN q ELSE 0
    BY DEF SoldFrom, HoldingInv, HoldingTypeOK
  <2>5. /\ hold[g].quantity \in Int
        /\ Total(TakenFrom(g)) \in Nat /\ Total(CreditedTo(g)) \in Nat
        /\ Total(SoldFrom(g)) \in Nat /\ shortfall[g] \in Nat /\ InitialQuantity[g] \in Nat
        /\ hold[g].quantity + Total(TakenFrom(g)) + Total(SoldFrom(g))
             = InitialQuantity[g] + Total(CreditedTo(g)) + shortfall[g]
    BY HoldingFacts
  <2>6. CASE g = h
    BY <2>1, <2>2, <2>3, <2>4, <2>5, <2>6
  <2>7. CASE g # h
    BY <2>1, <2>2, <2>3, <2>4, <2>5, <2>7
  <2> QED BY <2>6, <2>7
<1> QED BY <1>1, CutStatuses DEF SharesConserved

(* A reversed credit, of either holding table. *)
LEMMA DecrementKeeps ==
    ASSUME HoldingInv, NEW c \in Credits,
           DecrementForOwner(c) \/ DecrementForFundSecurity(c)
    PROVE  HoldingInv'
<1> DEFINE h == credit[c].holding
           q == credit[c].quantity
<1>0. c \in CreditIds /\ h \in Rows /\ q \in Nat
  BY DEF CreditIds, Rows, DecrementForOwner, DecrementForFundSecurity, HoldingInv, HoldingTypeOK
<1>1. credit[c] = [holding |-> h, quantity |-> q]
  BY <1>0 DEF HoldingInv, HoldingTypeOK
<1>2. /\ hold[h].quantity \in Int /\ hold[h].reserved \in Nat /\ shortfall[h] \in Nat
  BY <1>0, HoldingFacts
<1>3. /\ credit' = [credit EXCEPT ![c] = NoCredit] /\ UNCHANGED <<res, link, stl, sold>>
      /\ Undercuts(h, q)
  BY DEF DecrementForOwner, DecrementForFundSecurity
<1>4. credit' \in [CreditIds -> [holding : Rows \cup {None}, quantity : Nat]]
      /\ undercut' \subseteq Rows
  BY <1>0, <1>3 DEF HoldingInv, HoldingTypeOK, NoCredit, Undercuts
<1>5. CASE DecrementForOwner(c) /\ hold[h].quantity > q
  <2>1. /\ ReduceRow(h, q) /\ UNCHANGED severed
        /\ shortfall' = [shortfall EXCEPT ![h] = @ + FloorZero(q - hold[h].quantity)]
    BY <1>5 DEF DecrementForOwner, ReduceRow
  <2>2. FloorZero(q - hold[h].quantity) = 0
    <3> HIDE DEF q, h
    <3> QED BY <1>0, <1>2, <1>5 DEF FloorZero
  <2>3. shortfall' = shortfall
    BY <1>0, <1>2, <2>1, <2>2 DEF HoldingInv, HoldingTypeOK
  <2>4. /\ hold'[h].quantity = hold[h].quantity - q
        /\ \A g \in Rows \ {h} : hold'[g] = hold[g]
        /\ hold' \in [Rows -> [quantity : Int, reserved : Nat]]
    BY <1>0, <2>1 DEF ReduceRow, HoldingInv, HoldingTypeOK
  <2>5. HoldingTypeOK'
    BY <1>3, <1>4, <2>1, <2>3, <2>4 DEF HoldingInv, HoldingTypeOK
  <2>6. ReservedMatchesRows' /\ RowsSound' /\ SettlementsSound'
    BY <1>0, <1>3, <2>1, ReduceRowMatches, CutRowsSound
  <2>7. hold'[h].quantity - shortfall'[h] = hold[h].quantity - shortfall[h] - q
    <3> HIDE DEF q, h
    <3> QED BY <1>0, <1>2, <2>3, <2>4
  <2>8. SharesConserved'
    BY <1>0, <1>1, <1>3, <2>3, <2>4, <2>5, <2>7, ReversalConserves
  <2> QED BY <2>5, <2>6, <2>8 DEF HoldingInv
<1>6. CASE DecrementForOwner(c) /\ ~(hold[h].quantity > q)
  <2>1. /\ DeleteRow(h)
        /\ shortfall' = [shortfall EXCEPT ![h] = @ + FloorZero(q - hold[h].quantity)]
    BY <1>6 DEF DecrementForOwner
  <2>2. FloorZero(q - hold[h].quantity) = q - hold[h].quantity /\ hold[h].quantity <= q
    <3> HIDE DEF q, h
    <3> QED BY <1>0, <1>2, <1>6 DEF FloorZero
  <2>3. /\ shortfall'[h] = shortfall[h] + (q - hold[h].quantity)
        /\ \A g \in Rows \ {h} : shortfall'[g] = shortfall[g]
    BY <1>0, <2>1, <2>2 DEF HoldingInv, HoldingTypeOK
  <2>4. shortfall' \in [Rows -> Nat]
    <3>1. PICK n \in Nat : n = shortfall[h] + (q - hold[h].quantity)
      <4> HIDE DEF q, h
      <4> QED BY <1>0, <1>2, <2>2
    <3>2. shortfall' = [shortfall EXCEPT ![h] = n]
      BY <2>1, <2>2, <3>1
    <3> QED BY <3>2 DEF HoldingInv, HoldingTypeOK
  <2>5. /\ hold'[h].quantity = 0 /\ \A g \in Rows \ {h} : hold'[g] = hold[g]
        /\ hold' \in [Rows -> [quantity : Int, reserved : Nat]]
    BY <1>0, <2>1 DEF DeleteRow, HoldingInv, HoldingTypeOK
  <2>6. ReservedMatchesRows' /\ RowsSound' /\ SettlementsSound' /\ severed' \subseteq Keys
    BY <1>0, <1>3, <2>1, <2>2, DeleteRowMatches, CutRowsSound
  <2>7. HoldingTypeOK'
    BY <1>3, <1>4, <2>4, <2>5, <2>6 DEF HoldingInv, HoldingTypeOK
  <2>8. hold'[h].quantity - shortfall'[h] = hold[h].quantity - shortfall[h] - q
    <3> HIDE DEF q, h
    <3> QED BY <1>0, <1>2, <2>3, <2>5
  <2>9. SharesConserved'
    BY <1>0, <1>1, <1>3, <2>3, <2>5, <2>7, <2>8, ReversalConserves
  <2> QED BY <2>6, <2>7, <2>9 DEF HoldingInv
<1>7. CASE DecrementForFundSecurity(c)
  <2>1. ReduceRow(h, q) /\ UNCHANGED <<severed, shortfall>>
    BY <1>7 DEF DecrementForFundSecurity, ReduceRow
  <2>2. /\ hold'[h].quantity = hold[h].quantity - q
        /\ \A g \in Rows \ {h} : hold'[g] = hold[g]
        /\ hold' \in [Rows -> [quantity : Int, reserved : Nat]]
    BY <1>0, <2>1 DEF ReduceRow, HoldingInv, HoldingTypeOK
  <2>3. HoldingTypeOK'
    BY <1>3, <1>4, <2>1, <2>2 DEF HoldingInv, HoldingTypeOK
  <2>4. ReservedMatchesRows' /\ RowsSound' /\ SettlementsSound'
    BY <1>0, <1>3, <2>1, ReduceRowMatches, CutRowsSound
  <2>5. hold'[h].quantity - shortfall'[h] = hold[h].quantity - shortfall[h] - q
    <3> HIDE DEF q, h
    <3> QED BY <1>0, <1>2, <2>1, <2>2
  <2>6. SharesConserved'
    BY <1>0, <1>1, <1>3, <2>1, <2>2, <2>3, <2>5, ReversalConserves
  <2> QED BY <2>3, <2>4, <2>6 DEF HoldingInv
<1> QED BY <1>5, <1>6, <1>7

(* An exercised option that takes shares, or the whole row. *)
LEMMA ExerciseOptionKeeps ==
    ASSUME HoldingInv, NEW e \in Exercises, NEW h \in Holdings,
           DeleteHolding(e, h) \/ \E q \in Quantities : ExercisePut(e, h, q)
    PROVE  HoldingInv'
<1>0. h \in Rows
  BY DEF Rows
<1>1. hold[h].quantity \in Int /\ hold[h].reserved \in Nat
  BY <1>0, HoldingFacts
<1>2. CASE DeleteHolding(e, h)
  <2>1. /\ DeleteRow(h) /\ Undercuts(h, hold[h].quantity) /\ sold[e] = NoCredit
        /\ hold[h].quantity > 0
        /\ sold' = [sold EXCEPT ![e] = [holding |-> h, quantity |-> hold[h].quantity]]
        /\ UNCHANGED <<res, link, stl, credit, shortfall>>
    BY <1>2 DEF DeleteHolding
  <2>2. PICK q \in Nat : q = hold[h].quantity
    BY <1>1, <2>1
  <2>3. /\ hold'[h].quantity = hold[h].quantity - q /\ \A g \in Rows \ {h} : hold'[g] = hold[g]
        /\ hold' \in [Rows -> [quantity : Int, reserved : Nat]]
    <3>1. hold'[h].quantity = 0 /\ \A g \in Rows \ {h} : hold'[g] = hold[g]
      BY <1>0, <2>1 DEF DeleteRow, HoldingInv, HoldingTypeOK
    <3>2. hold' \in [Rows -> [quantity : Int, reserved : Nat]]
      BY <1>0, <2>1 DEF DeleteRow, HoldingInv, HoldingTypeOK
    <3> QED BY <2>2, <3>1, <3>2
  <2>4. ReservedMatchesRows' /\ RowsSound' /\ SettlementsSound' /\ severed' \subseteq Keys
    <3>1. hold[h].quantity <= hold[h].quantity
      BY <1>1
    <3> QED BY <1>0, <1>1, <2>1, <3>1, DeleteRowMatches, CutRowsSound
  <2>5. HoldingTypeOK'
    BY <1>0, <2>1, <2>2, <2>3, <2>4 DEF HoldingInv, HoldingTypeOK, Undercuts
  <2>6. SharesConserved'
    BY <1>0, <2>1, <2>2, <2>3, <2>5, ExerciseConserves
  <2> QED BY <2>4, <2>5, <2>6 DEF HoldingInv
<1>3. ASSUME NEW q \in Quantities, ExercisePut(e, h, q)
      PROVE  HoldingInv'
  <2>1. /\ ReduceRow(h, q) /\ Undercuts(h, q) /\ sold[e] = NoCredit /\ UNCHANGED severed
        /\ sold' = [sold EXCEPT ![e] = [holding |-> h, quantity |-> q]]
        /\ UNCHANGED <<res, link, stl, credit, shortfall>>
    BY <1>3 DEF ExercisePut, ReduceRow
  <2>2. q \in Nat
    BY HoldingAssumption
  <2>3. /\ hold'[h].quantity = hold[h].quantity - q /\ \A g \in Rows \ {h} : hold'[g] = hold[g]
        /\ hold' \in [Rows -> [quantity : Int, reserved : Nat]]
    BY <1>0, <2>1, <2>2 DEF ReduceRow, HoldingInv, HoldingTypeOK
  <2>4. ReservedMatchesRows' /\ RowsSound' /\ SettlementsSound'
    BY <1>0, <2>1, <2>2, ReduceRowMatches, CutRowsSound
  <2>5. HoldingTypeOK'
    BY <1>0, <2>1, <2>2, <2>3 DEF HoldingInv, HoldingTypeOK, Undercuts
  <2>6. SharesConserved'
    BY <1>0, <2>1, <2>2, <2>3, <2>5, ExerciseConserves
  <2> QED BY <2>4, <2>5, <2>6 DEF HoldingInv
<1> QED BY <1>2, <1>3

(* Writers that do not look at the reservations, for good or ill. *)
LEMMA UnreservedKeeps ==
    ASSUME HoldingInv, Unreserved
    PROVE  /\ HoldingInv' /\ UNCHANGED <<res, link, stl>>
           /\ \A p \in PeerKeys : credit'[p] = credit[p]
<1>1. ASSUME NEW c \in Credits, NEW h \in Rows, NEW q \in Quantities, UpsertIdempotent(c, h, q)
      PROVE  /\ HoldingInv' /\ UNCHANGED <<res, link, stl>>
             /\ \A p \in PeerKeys : credit'[p] = credit[p]
  <2>1. c \in CreditIds /\ q \in Nat /\ c \notin PeerKeys
    BY HoldingAssumption DEF CreditIds
  <2>2. HoldingInv'
    BY <1>1, <2>1, CreditKeeps DEF UpsertIdempotent
  <2> QED BY <1>1, <2>1, <2>2 DEF UpsertIdempotent, HoldingInv, HoldingTypeOK, CreditIds
<1>2. ASSUME NEW c \in Credits, DecrementForOwner(c) \/ DecrementForFundSecurity(c)
      PROVE  /\ HoldingInv' /\ UNCHANGED <<res, link, stl>>
             /\ \A p \in PeerKeys : credit'[p] = credit[p]
  <2>1. c \in CreditIds /\ c \notin PeerKeys
    BY HoldingAssumption DEF CreditIds
  <2>2. credit' = [credit EXCEPT ![c] = NoCredit] /\ UNCHANGED <<res, link, stl>>
    BY <1>2 DEF DecrementForOwner, DecrementForFundSecurity
  <2>3. HoldingInv'
    BY <1>2, DecrementKeeps
  <2> QED BY <2>1, <2>2, <2>3 DEF HoldingInv, HoldingTypeOK, CreditIds
<1>3. ASSUME NEW e \in Exercises, NEW h \in Holdings,
             DeleteHolding(e, h) \/ \E q \in Quantities : ExercisePut(e, h, q)
      PROVE  /\ HoldingInv' /\ UNCHANGED <<res, link, stl>>
             /\ \A p \in PeerKeys : credit'[p] = credit[p]
  <2>1. UNCHANGED <<res, link, stl, credit>>
    BY <1>3 DEF DeleteHolding, ExercisePut
  <2> QED BY <1>3, <2>1, ExerciseOptionKeeps
<1> QED BY <1>1, <1>2, <1>3 DEF Unreserved

(* The invariant holds before the first call. *)
LEMMA HoldingInitially ==
    ASSUME HoldingInit
    PROVE  HoldingInv
<1> USE HoldingAssumption
<1>1. HoldingTypeOK
  BY DEF HoldingInit, HoldingTypeOK, NoRow, NoSettlement, NoCredit
<1>2. RowsSound /\ SettlementsSound
  <2>1. \A c \in OtcKeys : c \in SettlementIds
    BY DEF SettlementIds
  <2> QED BY <2>1 DEF HoldingInit, RowsSound, SettlementsSound, NoRow
<1>3. ASSUME NEW r \in Keys PROVE Settled(r) = 0 /\ res[r].status = "none"
  <2>1. SettlementsOf(r) \in [SettlementIds -> Nat]
        /\ \A s \in SettlementIds : SettlementsOf(r)[s] = 0
    BY DEF HoldingInit, SettlementsOf, NoSettlement
  <2> QED BY <2>1, TotalZero DEF Settled, HoldingInit, NoRow
<1>4. ASSUME NEW h \in Rows
      PROVE  /\ Total(HeldBy(h)) = 0 /\ Total(TakenFrom(h)) = 0 /\ Total(CreditedTo(h)) = 0
             /\ Total(SoldFrom(h)) = 0 /\ shortfall[h] = 0 /\ severed = {}
             /\ hold[h].quantity = InitialQuantity[h] /\ hold[h].reserved = 0
             /\ InitialQuantity[h] \in Nat
  <2>1. HeldBy(h) \in [Keys -> Nat] /\ \A r \in Keys : HeldBy(h)[r] = 0
    BY <1>3 DEF HeldBy
  <2>2. TakenFrom(h) \in [SettlementIds -> Nat] /\ \A s \in SettlementIds : TakenFrom(h)[s] = 0
    BY DEF TakenFrom, HoldingInit
  <2>3. CreditedTo(h) \in [CreditIds -> Nat] /\ \A c \in CreditIds : CreditedTo(h)[c] = 0
    BY DEF CreditedTo, HoldingInit, NoCredit
  <2>4. SoldFrom(h) \in [Exercises -> Nat] /\ \A e \in Exercises : SoldFrom(h)[e] = 0
    BY DEF SoldFrom, HoldingInit, NoCredit
  <2>5. /\ Total(HeldBy(h)) = 0 /\ Total(TakenFrom(h)) = 0 /\ Total(CreditedTo(h)) = 0
        /\ Total(SoldFrom(h)) = 0
    BY <2>1, <2>2, <2>3, <2>4, TotalZero
  <2> QED BY <2>5 DEF HoldingInit
<1>5. ReservedMatchesRows
  BY <1>4 DEF ReservedMatchesRows
<1>6. SharesConserved
  BY <1>3, <1>4 DEF SharesConserved
<1> QED BY <1>1, <1>2, <1>5, <1>6 DEF HoldingInv

(* No call of the service breaks it, whoever calls. *)
LEMMA HoldingNextKeeps ==
    ASSUME HoldingInv, HoldingNext
    PROVE  HoldingInv'
<1> USE HoldingAssumption
<1>1. ASSUME NEW o \in OrderKeys, NEW h \in Rows, NEW q \in Quantities,
             Reserve(o, h, q) \/ ReserveFund(o, h, q)
      PROVE  HoldingInv'
  <2>1. o \in Keys /\ HoldShares(o, h, q)
    BY <1>1 DEF Keys, Reserve, ReserveFund
  <2> QED BY <2>1, HoldSharesKeeps
<1>2. ASSUME NEW k \in Keys, NEW h \in Holdings, NEW q \in Quantities, HoldShares(k, h, q)
      PROVE  HoldingInv'
  <2>1. h \in Rows
    BY DEF Rows
  <2> QED BY <1>2, <2>1, HoldSharesKeeps
<1>3. ASSUME NEW k \in Keys, NEW r \in RowsOf(k), ReleaseRow(r)
      PROVE  HoldingInv'
  <2>1. r \in Keys
    BY DEF RowsOf
  <2> QED BY <1>3, <2>1, ReleaseRowKeeps
<1>4. ASSUME NEW o \in OrderKeys, NEW t \in Txns, NEW q \in Quantities, PartialSettle(o, t, q)
      PROVE  HoldingInv'
  <2>1. PICK r \in RowsOf(o) : SettleRow(r, t, q)
    BY <1>4 DEF PartialSettle
  <2>2. r \in Keys /\ t \in SettlementIds /\ t \notin OtcKeys /\ q \in Nat /\ q > 0
    BY DEF RowsOf, SettlementIds
  <2> QED BY <2>1, <2>2, SettleRowKeeps
<1>5. ASSUME NEW c \in OtcKeys, ConsumeForOTCContract(c)
      PROVE  HoldingInv'
  <2>1. PICK r \in RowsOf(c) : SettleRow(r, c, res[r].quantity)
    BY <1>5 DEF ConsumeForOTCContract
  <2>2. c \in Keys /\ c \in SettlementIds /\ c \notin PeerKeys
    BY DEF Keys, SettlementIds
  <2>3. r = c /\ res[r].status # "none"
    BY <2>2, OwnRow DEF HoldingInv
  <2>4. res[r].quantity \in Nat /\ res[r].quantity > 0
    BY <2>2, <2>3 DEF HoldingInv, HoldingTypeOK, cutVars, RowsSound
  <2> QED BY <2>1, <2>2, <2>3, <2>4, SettleRowKeeps
<1>6. ASSUME NEW p \in PeerKeys, ConsumeForPeerOptionContract(p)
      PROVE  HoldingInv'
  <2>1. PICK r \in RowsOf(p) : SettleRow(r, p, res[r].quantity)
    BY <1>6 DEF ConsumeForPeerOptionContract
  <2>2. r \in Keys /\ res[r].status # "none" /\ p \in SettlementIds /\ p \notin OtcKeys
    BY DEF RowsOf, SettlementIds
  <2>3. res[r].quantity \in Nat /\ res[r].quantity > 0
    BY <2>2 DEF HoldingInv, HoldingTypeOK, cutVars, RowsSound
  <2> QED BY <2>1, <2>2, <2>3, SettleRowKeeps
<1>7. ASSUME NEW x \in TxKeys, NEW p \in PeerKeys, AttachCrossBankReservation(x, p)
      PROVE  HoldingInv'
  <2>1. link' \in [TxKeys -> PeerKeys \cup {None}]
    BY <1>7 DEF AttachCrossBankReservation, HoldingInv, HoldingTypeOK
  <2> QED BY <1>7, <2>1, LinkKeeps DEF AttachCrossBankReservation
<1>9. CASE \E o \in OrderKeys, h \in Rows, q \in Quantities : Reserve(o, h, q) \/ ReserveFund(o, h, q)
  BY <1>1, <1>9
<1>10. CASE \E c \in OtcKeys, h \in Holdings, q \in Quantities : ReserveForOTCContract(c, h, q)
  BY <1>2, <1>10 DEF Keys, ReserveForOTCContract
<1>11. CASE \E p \in PeerKeys, h \in Holdings, q \in Quantities : ReserveForPeerOptionContract(p, h, q)
  BY <1>2, <1>11 DEF Keys, ReserveForPeerOptionContract
<1>12. CASE \E x \in TxKeys, h \in Holdings, q \in Quantities : ReserveForCrossBankNewTx(x, h, q)
  BY <1>2, <1>12 DEF Keys, ReserveForCrossBankNewTx
<1>13. CASE \E o \in OrderKeys : Release(o) \/ \E t \in Txns, q \in Quantities : PartialSettle(o, t, q)
  BY <1>3, <1>4, <1>13 DEF Keys, Release
<1>14. CASE \E c \in OtcKeys :
               ReleaseForOTCContract(c) \/ ConsumeForOTCContract(c) \/ RestoreForOTCContract(c)
  BY <1>3, <1>5, <1>14, RestoreKeeps DEF Keys, ReleaseForOTCContract
<1>15. CASE \E p \in PeerKeys : ReleaseForPeerOptionContract(p) \/ ConsumeForPeerOptionContract(p)
  BY <1>3, <1>6, <1>15 DEF Keys, ReleaseForPeerOptionContract
<1>16. CASE \E x \in TxKeys :
               ReleaseForCrossBankNewTx(x) \/ \E p \in PeerKeys : AttachCrossBankReservation(x, p)
  BY <1>3, <1>7, <1>16 DEF Keys, ReleaseForCrossBankNewTx
<1>17. CASE Unreserved
  BY <1>17, UnreservedKeeps
<1> QED BY <1>9, <1>10, <1>11, <1>12, <1>13, <1>14, <1>15, <1>16, <1>17 DEF HoldingNext

(* HoldingReservationService alone, under any calls in any order: the      *)
(* reserved shares of every holding are those its rows still hold and      *)
(* never more than it owns, and shares move once per fill, contract and    *)
(* credit.                                                                 *)
THEOREM HoldingServiceCorrect ==
    HoldingSpec => [](HoldingTypeOK /\ ReservedMatchesRows /\ SharesConserved)
<1>1. HoldingInit => HoldingInv
  BY HoldingInitially
<1>2. HoldingInv /\ [HoldingNext]_holdingVars => HoldingInv'
  <2>1. CASE HoldingInv /\ HoldingNext
    BY <2>1, HoldingNextKeeps
  <2>2. CASE HoldingInv /\ UNCHANGED holdingVars
    <3>1. link' \in [TxKeys -> PeerKeys \cup {None}] /\ UNCHANGED <<hold, res, stl, credit, cutVars>>
      BY <2>2 DEF HoldingInv, HoldingTypeOK, cutVars, holdingVars
    <3> QED BY <2>2, <3>1, LinkKeeps
  <2> QED BY <2>1, <2>2
<1>3. HoldingInv => HoldingTypeOK /\ ReservedMatchesRows /\ SharesConserved
  BY DEF HoldingInv
<1> QED BY <1>1, <1>2, <1>3, PTL DEF HoldingSpec

-----------------------------------------------------------------------------
(* The contracts *)

Statuses == {"none", "active", "exercising", "exercised", "expired"}

PeerTypeOK ==
    /\ contract \in [PeerKeys -> Statuses]
    /\ date \in [PeerKeys -> {"ahead", "today", "past"}]
    /\ deal \in [BuyerContracts -> {"none", "open", "committed", "aborted"}]
    /\ older \in [BuyerContracts -> Nat]
    /\ strikes \in [BuyerContracts -> Nat]
    /\ lost \in [BuyerContracts -> 0 .. MaxLost]

(* A vote-time row is linked to no contract but the one its NEW_TX mints,  *)
(* and that contract then has no row of its own: one hold per contract.    *)
LinkSound ==
    \A x \in TxKeys : link[x] # None =>
        link[x] \in SellerContracts /\ x = TxOf[link[x]] /\ res[x].status # "none"

OneHold == \A p \in SellerContracts : ~(res[p].status # "none" /\ link[TxOf[p]] = p)

(* The contract's hold is there and holds nothing any more. *)
Spent(p) == RowsOf(p) # {} /\ \A r \in RowsOf(p) : res[r].status # "active"

SellerSound ==
    \A p \in SellerContracts :
        /\ date[p] # "ahead" \/ <<"release", p>> \in work => RowsOf(p) # {}
        /\ <<"expire", p>> \in work \/ contract[p] = "expired" => Spent(p)
        /\ <<"mark", p>> \in work \/ contract[p] = "exercised" => stl[p] # NoSettlement

(* The credit and the status of a bought contract change together. *)
BuyerSound ==
    \A p \in BuyerContracts :
        /\ credit[p] # NoCredit => contract[p] \in {"exercised", "expired"}
        /\ contract[p] = "exercised" => credit[p] # NoCredit

PeerInv ==
    /\ HoldingInv
    /\ PeerTypeOK
    /\ LinkSound
    /\ OneHold
    /\ SellerSound
    /\ BuyerSound

(* Payments that committed or still may are as many as the answers lost,   *)
(* and one more while the contract is claimed or ended; shares come only   *)
(* with a payment that committed.                                          *)
Claimed(p) == contract[p] \notin {"none", "active"} /\ deal[p] # "aborted"
Payments(p) == strikes[p] + older[p] + IF deal[p] = "open" THEN 1 ELSE 0

StrikeInv ==
    \A p \in BuyerContracts :
        /\ Payments(p) <= lost[p] + IF Claimed(p) THEN 1 ELSE 0
        /\ credit[p] # NoCredit => strikes[p] >= 1

-----------------------------------------------------------------------------
(* What a share operation leaves of a contract's hold *)

(* A hold that is there stays the contract's hold, one that ended stays    *)
(* ended, and a settled contract stays settled.                            *)
RowsKept ==
    \A p \in SellerContracts :
        /\ RowsOf(p) # {} => RowsOf(p)' # {}
        /\ Spent(p) => Spent(p)'
        /\ stl[p] # NoSettlement => stl'[p] # NoSettlement

(* A step that neither makes rows nor links nor wakes one up, but for the  *)
(* restore of an OTC contract.                                             *)
Quiet ==
    /\ UNCHANGED link
    /\ \A k \in Keys : /\ (res'[k].status = "none") = (res[k].status = "none")
                       /\ res'[k].status = "active" => res[k].status = "active" \/ k \in OtcKeys
    /\ \A p \in SellerContracts : stl[p] # NoSettlement => stl'[p] # NoSettlement

(* A seller's contract is a key, and so is its NEW_TX. *)
LEMMA SellerKeys ==
    ASSUME NEW p \in SellerContracts
    PROVE  /\ p \in PeerKeys /\ p \in Keys /\ p \in SettlementIds /\ p \notin OtcKeys
           /\ p \notin TxKeys /\ p \notin OrderKeys /\ p # None
           /\ TxOf[p] \in TxKeys /\ TxOf[p] \in Keys /\ TxOf[p] \notin OtcKeys
           /\ HoldingOf[p] \in Rows
BY HoldingAssumption, PeerOptionAssumption DEF Keys, SettlementIds, Rows

(* The rows of a contract are its own one, or the vote's. *)
LEMMA RowsOfSeller ==
    ASSUME LinkSound, NEW p \in SellerContracts, NEW r
    PROVE  r \in RowsOf(p) <=> \/ r = p /\ res[p].status # "none"
                               \/ r = TxOf[p] /\ link[TxOf[p]] = p
<1>1. \A x \in TxKeys : link[x] = p => x = TxOf[p] /\ res[x].status # "none"
  BY SellerKeys DEF LinkSound
<1> QED BY <1>1, SellerKeys DEF RowsOf

(* At most one. *)
LEMMA OneRow ==
    ASSUME LinkSound, OneHold, NEW p \in SellerContracts, NEW r \in RowsOf(p), NEW s \in RowsOf(p)
    PROVE  r = s
BY RowsOfSeller DEF OneHold

(* A quiet step keeps every contract's hold. *)
LEMMA QuietKeeps ==
    ASSUME LinkSound, OneHold, Quiet
    PROVE  LinkSound' /\ OneHold' /\ RowsKept
<1>1. LinkSound'
  <2>1. \A x \in TxKeys : x \in Keys
    BY DEF Keys
  <2> QED BY <2>1 DEF Quiet, LinkSound
<1>2. OneHold'
  BY SellerKeys DEF Quiet, OneHold
<1>3. ASSUME NEW p \in SellerContracts
      PROVE  RowsOf(p)' = RowsOf(p) /\ (Spent(p) => Spent(p)')
  <2>1. RowsOf(p)' = RowsOf(p)
    BY DEF RowsOf, Quiet
  <2>2. \A r \in RowsOf(p) : r \in Keys /\ r \notin OtcKeys
    BY RowsOfSeller, SellerKeys
  <2> QED BY <2>1, <2>2 DEF Quiet, Spent
<1> QED BY <1>1, <1>2, <1>3 DEF RowsKept, Quiet

(* Steps that change no share row are quiet. *)
LEMMA StutterQuiet ==
    ASSUME UNCHANGED <<res, link, stl>>
    PROVE  Quiet
BY DEF Quiet

LEMMA ReleaseQuiet ==
    ASSUME HoldingInv, NEW r \in Keys, ReleaseRow(r)
    PROVE  Quiet /\ res'[r].status = "released"
BY DEF Quiet, ReleaseRow, HoldingInv, HoldingTypeOK

LEMMA SettleQuiet ==
    ASSUME HoldingInv, NEW r \in Keys, NEW s \in SettlementIds, NEW q \in Nat, SettleRow(r, s, q)
    PROVE  Quiet /\ stl'[s] # NoSettlement
<1>1. /\ res[r].status = "active" /\ stl[s] = NoSettlement
      /\ stl' = [stl EXCEPT ![s] = [row |-> r, quantity |-> q]]
      /\ res' = [res EXCEPT ![r].status =
                    IF Settled(r) + q = res[r].quantity THEN "settled" ELSE @]
      /\ UNCHANGED link
  BY DEF SettleRow, SettleAccepts
<1>2. stl'[s] # NoSettlement /\ \A t \in SettlementIds \ {s} : stl'[t] = stl[t]
  BY <1>1, HoldingAssumption DEF HoldingInv, HoldingTypeOK, cutVars, NoSettlement
<1>3. res'[r].status \in {"settled", "active"} /\ \A k \in Keys \ {r} : res'[k] = res[k]
  BY <1>1 DEF HoldingInv, HoldingTypeOK, cutVars
<1> QED BY <1>1, <1>2, <1>3, SellerKeys DEF Quiet

LEMMA RestoreQuiet ==
    ASSUME HoldingInv, NEW c \in OtcKeys, RestoreForOTCContract(c)
    PROVE  Quiet
<1>1. c \in Keys /\ c \in SettlementIds /\ c \notin PeerKeys
  BY HoldingAssumption DEF Keys, SettlementIds
<1>2. PICK r \in RowsOf(c) \ severed :
        res' = [res EXCEPT ![r].status = IF @ = "settled" THEN "active" ELSE @]
  BY DEF RestoreForOTCContract
<1>3. r = c
  BY <1>1, OwnRow DEF HoldingInv
<1>4. /\ (res'[c].status = "none") = (res[c].status = "none")
      /\ \A k \in Keys \ {c} : res'[k] = res[k]
  BY <1>1, <1>2, <1>3 DEF HoldingInv, HoldingTypeOK, cutVars
<1>5. \A t \in SettlementIds \ {c} : stl'[t] = stl[t]
  BY <1>1 DEF RestoreForOTCContract, HoldingInv, HoldingTypeOK
<1> QED BY <1>1, <1>4, <1>5, SellerKeys DEF Quiet, RestoreForOTCContract

(* A new row joins no contract that has one. *)
LEMMA HoldSharesRows ==
    ASSUME HoldingInv, LinkSound, OneHold, NEW k \in Keys, NEW h, NEW q, HoldShares(k, h, q)
    PROVE  LinkSound' /\ OneHold' /\ RowsKept
<1>1. /\ RowsOf(k) = {} /\ UNCHANGED <<link, stl>>
      /\ res' = [res EXCEPT ![k] = [status |-> "active", holding |-> h, quantity |-> q]]
  BY DEF HoldShares
<1>2. res[k].status = "none"
  BY <1>1 DEF RowsOf
<1>3. res'[k].status = "active" /\ \A y \in Keys \ {k} : res'[y] = res[y]
  BY <1>1 DEF HoldingInv, HoldingTypeOK, cutVars
<1>4. LinkSound'
  <2>1. \A x \in TxKeys : x \in Keys
    BY DEF Keys
  <2> QED BY <1>1, <1>3, <2>1 DEF LinkSound
<1>5. OneHold'
  <2> SUFFICES ASSUME NEW p \in SellerContracts, res'[p].status # "none", link[TxOf[p]] = p
               PROVE  FALSE
    BY <1>1 DEF OneHold
  <2>1. CASE p = k
    BY <1>1, <2>1, RowsOfSeller
  <2>2. CASE p # k
    BY <1>3, <2>2, SellerKeys DEF OneHold
  <2> QED BY <2>1, <2>2
<1>6. ASSUME NEW p \in SellerContracts, RowsOf(p) # {}
      PROVE  RowsOf(p)' = RowsOf(p) /\ k \notin RowsOf(p)
  <2>1. k \notin RowsOf(p)
    BY <1>2 DEF RowsOf
  <2>2. k # p
    BY <1>1, <1>6
  <2>3. ~(k \in TxKeys /\ link[k] = p)
    BY <1>2, SellerKeys DEF LinkSound
  <2> QED BY <1>1, <1>3, <2>1, <2>2, <2>3 DEF RowsOf
<1>7. \A p \in SellerContracts : \A r \in RowsOf(p) : r \in Keys
  BY DEF RowsOf
<1> QED BY <1>1, <1>3, <1>4, <1>5, <1>6, <1>7 DEF RowsKept, Spent

(* The link of a vote's row to its contract takes the row from no other. *)
LEMMA AttachRows ==
    ASSUME HoldingInv, LinkSound, OneHold, NEW p \in SellerContracts,
           AttachCrossBankReservation(TxOf[p], p)
    PROVE  LinkSound' /\ OneHold' /\ RowsKept
<1>1. /\ res[TxOf[p]].status # "none" /\ RowsOf(p) = {} /\ UNCHANGED <<res, stl>>
      /\ link' = [link EXCEPT ![TxOf[p]] = p]
  BY DEF AttachCrossBankReservation
<1>2. link'[TxOf[p]] = p /\ \A x \in TxKeys \ {TxOf[p]} : link'[x] = link[x]
  BY <1>1, SellerKeys DEF HoldingInv, HoldingTypeOK, cutVars
<1>3. LinkSound'
  BY <1>1, <1>2 DEF LinkSound
<1>4. \A q \in SellerContracts \ {p} : TxOf[q] # TxOf[p]
  BY PeerOptionAssumption
<1>5. OneHold'
  <2> SUFFICES ASSUME NEW q \in SellerContracts, res[q].status # "none", link'[TxOf[q]] = q
               PROVE  FALSE
    BY <1>1 DEF OneHold
  <2>1. CASE q = p
    BY <1>1, <2>1, RowsOfSeller
  <2>2. CASE q # p
    BY <1>2, <1>4, <2>2, SellerKeys DEF OneHold
  <2> QED BY <2>1, <2>2
<1>6. ASSUME NEW q \in SellerContracts, RowsOf(q) # {}
      PROVE  RowsOf(q)' = RowsOf(q)
  <2>1. q # p
    BY <1>1, <1>6
  <2>2. \A x \in TxKeys : (link'[x] = q) = (link[x] = q)
    <3>1. link[TxOf[p]] # q
      BY <1>4, <2>1, SellerKeys DEF LinkSound
    <3> QED BY <1>2, <2>1, <3>1
  <2> QED BY <1>1, <2>2 DEF RowsOf
<1> QED BY <1>1, <1>3, <1>5, <1>6 DEF RowsKept, Spent

-----------------------------------------------------------------------------
(* Steps of the contracts preserve the invariant *)

(* What a share operation leaves in order. *)
SharesKept == HoldingInv' /\ LinkSound' /\ OneHold' /\ RowsKept

LEMMA UnchangedShares ==
    ASSUME PeerInv, UNCHANGED holdingVars
    PROVE  SharesKept /\ UNCHANGED credit
<1>1. /\ link' \in [TxKeys -> PeerKeys \cup {None}]
      /\ UNCHANGED <<hold, res, stl, credit, cutVars>> /\ UNCHANGED <<res, link, stl>>
  BY DEF PeerInv, HoldingInv, HoldingTypeOK, holdingVars
<1>2. HoldingInv'
  BY <1>1, LinkKeeps DEF PeerInv
<1> QED BY <1>1, <1>2, StutterQuiet, QuietKeeps DEF PeerInv, SharesKept

LEMMA HeldShares ==
    ASSUME PeerInv, NEW k \in Keys, NEW h \in Rows, NEW q \in Quantities, HoldShares(k, h, q)
    PROVE  SharesKept /\ UNCHANGED credit
BY HoldSharesKeeps, HoldSharesRows DEF PeerInv, SharesKept, HoldShares

LEMMA ReleasedShares ==
    ASSUME PeerInv, NEW k, NEW r \in RowsOf(k), ReleaseRow(r)
    PROVE  SharesKept /\ UNCHANGED credit /\ res'[r].status = "released"
<1>1. r \in Keys
  BY DEF RowsOf
<1> QED BY <1>1, ReleaseRowKeeps, ReleaseQuiet, QuietKeeps DEF PeerInv, SharesKept,
      ReleaseRow

LEMMA SettledShares ==
    ASSUME PeerInv, NEW r \in Keys, NEW s \in SettlementIds, NEW q \in Nat, q > 0,
           s \in OtcKeys => (r = s /\ q = res[r].quantity), SettleRow(r, s, q)
    PROVE  SharesKept /\ UNCHANGED credit /\ stl'[s] # NoSettlement
BY SettleRowKeeps, SettleQuiet, QuietKeeps DEF PeerInv, SharesKept, SettleRow

(* Orders, OTC contracts and credits leave the peer contracts alone. *)
LEMMA OrdersAndOtcShares ==
    ASSUME PeerInv, OrdersAndOtc
    PROVE  SharesKept /\ UNCHANGED peerVars /\ \A p \in BuyerContracts : credit'[p] = credit[p]
<1> USE HoldingAssumption
<1> DEFINE Goal == SharesKept /\ \A p \in BuyerContracts : credit'[p] = credit[p]
<1>1. ASSUME NEW o \in OrderKeys, NEW h \in Rows, NEW q \in Quantities,
             Reserve(o, h, q) \/ ReserveFund(o, h, q)
      PROVE  Goal
  <2>1. o \in Keys /\ HoldShares(o, h, q)
    BY <1>1 DEF Keys, Reserve, ReserveFund
  <2> QED BY <2>1, HeldShares
<1>2. ASSUME NEW o \in OrderKeys, Release(o)
      PROVE  Goal
  <2>1. PICK r \in RowsOf(o) : ReleaseRow(r)
    BY <1>2 DEF Release
  <2> QED BY <2>1, ReleasedShares
<1>3. ASSUME NEW o \in OrderKeys, NEW t \in Txns, NEW q \in Quantities, PartialSettle(o, t, q)
      PROVE  Goal
  <2>1. PICK r \in RowsOf(o) : SettleRow(r, t, q)
    BY <1>3 DEF PartialSettle
  <2>2. r \in Keys /\ t \in SettlementIds /\ t \notin OtcKeys /\ q \in Nat /\ q > 0
    BY DEF RowsOf, SettlementIds
  <2> QED BY <2>1, <2>2, SettledShares
<1>4. ASSUME NEW c \in OtcKeys, NEW h \in Holdings, NEW q \in Quantities,
             ReserveForOTCContract(c, h, q)
      PROVE  Goal
  <2>1. c \in Keys /\ h \in Rows /\ HoldShares(c, h, q)
    BY <1>4 DEF Keys, Rows, ReserveForOTCContract
  <2> QED BY <2>1, HeldShares
<1>5. ASSUME NEW c \in OtcKeys, ReleaseForOTCContract(c)
      PROVE  Goal
  <2>1. PICK r \in RowsOf(c) : ReleaseRow(r)
    BY <1>5 DEF ReleaseForOTCContract
  <2> QED BY <2>1, ReleasedShares
<1>6. ASSUME NEW c \in OtcKeys, ConsumeForOTCContract(c)
      PROVE  Goal
  <2>1. PICK r \in RowsOf(c) : SettleRow(r, c, res[r].quantity)
    BY <1>6 DEF ConsumeForOTCContract
  <2>2. c \in Keys /\ c \in SettlementIds /\ c \notin PeerKeys
    BY DEF Keys, SettlementIds
  <2>3. r = c /\ res[r].status # "none"
    BY <2>2, OwnRow DEF PeerInv, HoldingInv
  <2>4. res[r].quantity \in Nat /\ res[r].quantity > 0
    BY <2>2, <2>3 DEF PeerInv, HoldingInv, HoldingTypeOK, RowsSound
  <2> QED BY <2>1, <2>2, <2>3, <2>4, SettledShares
<1>7. ASSUME NEW c \in OtcKeys, RestoreForOTCContract(c)
      PROVE  Goal
  <2>1. HoldingInv' /\ Quiet
    BY <1>7, RestoreKeeps, RestoreQuiet DEF PeerInv
  <2>2. UNCHANGED credit
    BY <1>7 DEF RestoreForOTCContract
  <2> QED BY <2>1, <2>2, QuietKeeps DEF PeerInv, SharesKept
<1>8. ASSUME Unreserved
      PROVE  Goal
  <2>1. /\ HoldingInv' /\ Quiet
        /\ \A p \in BuyerContracts : credit'[p] = credit[p]
    BY <1>8, UnreservedKeeps, StutterQuiet, PeerOptionAssumption DEF PeerInv
  <2> QED BY <2>1, QuietKeeps DEF PeerInv, SharesKept
<1>9. UNCHANGED peerVars
  BY DEF OrdersAndOtc
<1> HIDE DEF Goal
<1>10. Goal
  BY <1>1, <1>2, <1>3, <1>4, <1>5, <1>6, <1>7, <1>8 DEF OrdersAndOtc
<1> QED BY <1>9, <1>10 DEF Goal

(* What a step may do to the sold contracts: a date passes, a release or   *)
(* an end is begun, and a status is set only where the hold allows it.     *)
SellerMove ==
    \A p \in SellerContracts :
        /\ date'[p] # "ahead" => date[p] # "ahead" \/ RowsOf(p) # {}
        /\ <<"release", p>> \in work' => <<"release", p>> \in work \/ RowsOf(p) # {}
        /\ <<"expire", p>> \in work' => <<"expire", p>> \in work \/ Spent(p)'
        /\ contract'[p] = "expired" => contract[p] = "expired" \/ <<"expire", p>> \in work
        /\ <<"mark", p>> \in work' => <<"mark", p>> \in work \/ stl'[p] # NoSettlement
        /\ contract'[p] = "exercised" => contract[p] = "exercised" \/ <<"mark", p>> \in work

LEMMA SellerFrame ==
    ASSUME PeerInv, SharesKept, SellerMove
    PROVE  SellerSound'
<1> SUFFICES ASSUME NEW p \in SellerContracts
             PROVE  /\ date'[p] # "ahead" \/ <<"release", p>> \in work' => RowsOf(p)' # {}
                    /\ <<"expire", p>> \in work' \/ contract'[p] = "expired" => Spent(p)'
                    /\ <<"mark", p>> \in work' \/ contract'[p] = "exercised" => stl'[p] # NoSettlement
  BY DEF SellerSound
<1> QED BY DEF PeerInv, SellerSound, SharesKept, RowsKept, SellerMove

(* A step is sound when shares, types, statuses and credits are. *)
LEMMA StepSound ==
    ASSUME PeerInv, SharesKept, PeerTypeOK', SellerMove, BuyerSound'
    PROVE  PeerInv'
BY SellerFrame DEF PeerInv, SharesKept

(* A step that touches no status, date or credit of a bought contract. *)
LEMMA BuyerFrame ==
    ASSUME PeerInv, UNCHANGED credit,
           \A p \in BuyerContracts : contract'[p] = contract[p]
    PROVE  BuyerSound'
BY DEF PeerInv, BuyerSound

(* A contract is not at once sold and bought. *)
LEMMA Sides ==
    /\ \A p \in SellerContracts : p \in PeerKeys /\ p \notin BuyerContracts
    /\ \A p \in BuyerContracts : p \in PeerKeys /\ p \notin SellerContracts
    /\ \A p \in PeerKeys : p \in SellerContracts \/ p \in BuyerContracts
BY PeerOptionAssumption

(* Steps on the seller's side. *)
LEMMA SellerStep ==
    ASSUME PeerInv, NEW p \in SellerContracts, SellerNext(p)
    PROVE  PeerInv'
<1> USE Sides
<1>0. PeerTypeOK /\ HoldingInv /\ p \in Keys /\ TxOf[p] \in Keys /\ HoldingOf[p] \in Rows /\ Qty \in Quantities
      /\ p \in SettlementIds /\ p \notin OtcKeys
  BY SellerKeys, PeerOptionAssumption DEF PeerInv
<1>1. CASE VoteHolds(p)
  <2>1. HoldShares(TxOf[p], HoldingOf[p], Qty) /\ UNCHANGED peerVars
    BY <1>1 DEF VoteHolds, ReserveForCrossBankNewTx
  <2>2. SharesKept /\ UNCHANGED credit
    BY <1>0, <2>1, HeldShares
  <2>3. PeerTypeOK' /\ SellerMove /\ BuyerSound'
    BY <1>0, <2>1, <2>2, BuyerFrame DEF peerVars, PeerTypeOK, SellerMove
  <2> QED BY <2>2, <2>3, StepSound
<1>2. CASE VoteReleased(p)
  <2>1. PICK r \in RowsOf(TxOf[p]) : ReleaseRow(r)
    BY <1>2 DEF VoteReleased, ReleaseForCrossBankNewTx
  <2>2. SharesKept /\ UNCHANGED credit /\ UNCHANGED peerVars
    BY <1>2, <2>1, ReleasedShares DEF VoteReleased
  <2>3. PeerTypeOK' /\ SellerMove /\ BuyerSound'
    BY <1>0, <2>2, BuyerFrame DEF peerVars, PeerTypeOK, SellerMove
  <2> QED BY <2>2, <2>3, StepSound
<1>3. CASE AttachHold(p)
  <2>1. SharesKept /\ UNCHANGED credit
    <3>1. CASE AttachCrossBankReservation(TxOf[p], p)
      <4>1. LinkSound' /\ OneHold' /\ RowsKept
        BY <3>1, AttachRows DEF PeerInv
      <4>2. link' \in [TxKeys -> PeerKeys \cup {None}] /\ UNCHANGED <<hold, res, stl, credit, cutVars>>
        BY <3>1 DEF AttachCrossBankReservation, PeerInv, HoldingInv, HoldingTypeOK
      <4> QED BY <4>1, <4>2, LinkKeeps DEF PeerInv, SharesKept
    <3>2. CASE UNCHANGED holdingVars
      BY <3>2, UnchangedShares
    <3> QED BY <1>3, <3>1, <3>2 DEF AttachHold
  <2>2. /\ UNCHANGED <<contract, date, deal, older, strikes, lost>>
        /\ work' \subseteq work \cup {<<"reserve", p>>}
    BY <1>3 DEF AttachHold, Continue
  <2>3. PeerTypeOK' /\ SellerMove /\ BuyerSound'
    BY <1>0, <2>1, <2>2, BuyerFrame DEF PeerTypeOK, SellerMove
  <2> QED BY <2>1, <2>3, StepSound
<1>4. CASE ReserveAtCommit(p)
  <2>1. SharesKept /\ UNCHANGED credit
    <3>1. CASE ReserveForPeerOptionContract(p, HoldingOf[p], Qty)
      BY <1>0, <3>1, HeldShares DEF ReserveForPeerOptionContract
    <3>2. CASE UNCHANGED holdingVars
      BY <3>2, UnchangedShares
    <3> QED BY <1>4, <3>1, <3>2 DEF ReserveAtCommit
  <2>2. /\ UNCHANGED <<contract, date, deal, older, strikes, lost>> /\ work' \subseteq work
    BY <1>4 DEF ReserveAtCommit, Continue
  <2>3. PeerTypeOK' /\ SellerMove /\ BuyerSound'
    BY <1>0, <2>1, <2>2, BuyerFrame DEF PeerTypeOK, SellerMove
  <2> QED BY <2>1, <2>3, StepSound
<1>5. CASE ExerciseSeller(p)
  <2>1. SharesKept /\ UNCHANGED credit
    BY <1>5, UnchangedShares DEF ExerciseSeller
  <2>2. /\ UNCHANGED <<contract, date, deal, older, strikes, lost>>
        /\ work' \subseteq work \cup {<<"consume", p>>}
    BY <1>5 DEF ExerciseSeller
  <2>3. PeerTypeOK' /\ SellerMove /\ BuyerSound'
    BY <1>0, <2>1, <2>2, BuyerFrame DEF PeerTypeOK, SellerMove
  <2> QED BY <2>1, <2>3, StepSound
<1>6. CASE ConsumeShares(p)
  <2>1. /\ UNCHANGED <<contract, date, deal, older, strikes, lost>>
        /\ work' \subseteq work \cup {<<"mark", p>>}
    BY <1>6 DEF ConsumeShares, Continue
  <2>2. SharesKept /\ UNCHANGED credit /\ (<<"mark", p>> \in work' => <<"mark", p>> \in work \/ stl'[p] # NoSettlement)
    <3>1. CASE ConsumeForPeerOptionContract(p)
      <4>1. PICK r \in RowsOf(p) : SettleRow(r, p, res[r].quantity)
        BY <3>1 DEF ConsumeForPeerOptionContract
      <4>2. r \in Keys /\ res[r].status # "none"
        BY DEF RowsOf
      <4>3. res[r].quantity \in Nat /\ res[r].quantity > 0
        BY <1>0, <4>2 DEF HoldingInv, HoldingTypeOK, cutVars, RowsSound
      <4> QED BY <1>0, <4>1, <4>2, <4>3, SettledShares
    <3>2. CASE UNCHANGED holdingVars /\ Continue(<<"consume", p>>, {})
      BY <3>2, UnchangedShares DEF Continue
    <3> QED BY <1>6, <3>1, <3>2 DEF ConsumeShares
  <2>3. PeerTypeOK' /\ BuyerSound'
    BY <1>0, <2>1, <2>2, BuyerFrame DEF PeerTypeOK
  <2>4. SellerMove
    BY <2>1, <2>2 DEF SellerMove
  <2> QED BY <2>2, <2>3, <2>4, StepSound
<1>7. CASE MarkExercised(p)
  <2>1. SharesKept /\ UNCHANGED credit
    BY <1>7, UnchangedShares DEF MarkExercised
  <2>2. /\ UNCHANGED <<date, deal, older, strikes, lost>> /\ work' \subseteq work
        /\ <<"mark", p>> \in work /\ contract' = [contract EXCEPT ![p] = "exercised"]
    BY <1>7 DEF MarkExercised, Continue, SetStatus
  <2>3. PeerTypeOK'
    BY <1>0, <2>2 DEF PeerTypeOK, Statuses
  <2>4. BuyerSound'
    BY <1>0, <2>1, <2>2, BuyerFrame DEF PeerTypeOK
  <2>5. SellerMove
    BY <1>0, <2>2 DEF SellerMove, PeerTypeOK
  <2> QED BY <2>1, <2>3, <2>4, <2>5, StepSound
<1>8. CASE ExpireRelease(p)
  <2>1. /\ UNCHANGED <<contract, date, deal, older, strikes, lost>> /\ <<"release", p>> \in work
        /\ work' \subseteq work \cup {<<"expire", p>>}
    BY <1>8 DEF ExpireRelease, Continue
  <2>2. RowsOf(p) # {}
    BY <2>1 DEF PeerInv, SellerSound
  <2>3. /\ SharesKept /\ UNCHANGED credit
        /\ <<"expire", p>> \in work' => <<"expire", p>> \in work \/ Spent(p)'
    <3>1. CASE ReleaseForPeerOptionContract(p)
      <4>1. PICK r \in RowsOf(p) : ReleaseRow(r)
        BY <3>1 DEF ReleaseForPeerOptionContract
      <4>2. SharesKept /\ UNCHANGED credit /\ res'[r].status = "released" /\ r \in Keys
        BY <4>1, ReleasedShares DEF RowsOf
      <4>3. \A s \in RowsOf(p) : s = r
        BY OneRow DEF PeerInv
      <4>4. RowsOf(p)' = RowsOf(p)
        <5>1. UNCHANGED link /\ \A k \in Keys : (res'[k].status = "none") = (res[k].status = "none")
          BY <1>0, <4>1, <4>2, ReleaseQuiet DEF Quiet
        <5> QED BY <5>1 DEF RowsOf
      <4>5. Spent(p)'
        BY <4>2, <4>3, <4>4, <2>2 DEF Spent
      <4> QED BY <4>2, <4>5
    <3>2. CASE (\A r \in RowsOf(p) : res[r].status # "active") /\ UNCHANGED holdingVars
      <4>1. Spent(p)
        BY <2>2, <3>2 DEF Spent
      <4>2. SharesKept /\ UNCHANGED credit
        BY <3>2, UnchangedShares
      <4> QED BY <4>1, <4>2 DEF SharesKept, RowsKept
    <3>3. CASE Continue(<<"release", p>>, {}) /\ UNCHANGED holdingVars
      <4>1. work' \subseteq work
        BY <3>3 DEF Continue
      <4> QED BY <3>3, <4>1, UnchangedShares
    <3> QED BY <1>8, <3>1, <3>2, <3>3 DEF ExpireRelease
  <2>4. PeerTypeOK' /\ BuyerSound'
    BY <1>0, <2>1, <2>3, BuyerFrame DEF PeerTypeOK
  <2>5. SellerMove
    BY <2>1, <2>3 DEF SellerMove
  <2> QED BY <2>3, <2>4, <2>5, StepSound
<1> QED BY <1>1, <1>2, <1>3, <1>4, <1>5, <1>6, <1>7, <1>8 DEF SellerNext

(* Steps on the buyer's side. *)
LEMMA BuyerStep ==
    ASSUME PeerInv, NEW p \in BuyerContracts, BuyerNext(p)
    PROVE  PeerInv'
<1> USE Sides
<1>0. PeerTypeOK /\ HoldingInv
  BY DEF PeerInv
<1>1. CASE InitiateOptionExercise(p)
  <2>1. SharesKept /\ UNCHANGED credit
    BY <1>1, UnchangedShares DEF InitiateOptionExercise
  <2>2. /\ UNCHANGED <<date, strikes, lost>> /\ work' \subseteq work \cup {<<"await", p>>}
        /\ contract[p] = "active" /\ contract' = [contract EXCEPT ![p] = "exercising"]
        /\ deal' = [deal EXCEPT ![p] = "open"]
        /\ older' = [older EXCEPT ![p] = @ + IF deal[p] = "open" THEN 1 ELSE 0]
    BY <1>1 DEF InitiateOptionExercise, SetStatus
  <2>3. PeerTypeOK'
    BY <1>0, <2>2 DEF PeerTypeOK, Statuses
  <2>4. SellerMove
    BY <1>0, <2>2 DEF SellerMove, PeerTypeOK
  <2>5. BuyerSound'
    BY <1>0, <2>1, <2>2 DEF PeerInv, BuyerSound, PeerTypeOK
  <2> QED BY <2>1, <2>3, <2>4, <2>5, StepSound
<1>2. CASE DealCommits(p) \/ DealAborts(p) \/ OlderEnds(p)
  <2>1. UNCHANGED holdingVars /\ UNCHANGED <<contract, date, work, lost>>
    BY <1>2 DEF DealCommits, DealAborts, OlderEnds
  <2>2. SharesKept /\ UNCHANGED credit
    BY <2>1, UnchangedShares
  <2>3. PeerTypeOK'
    BY <1>0, <1>2, <2>1 DEF PeerTypeOK, DealCommits, DealAborts, OlderEnds
  <2>4. SellerMove /\ BuyerSound'
    BY <2>1, <2>2, BuyerFrame DEF SellerMove
  <2> QED BY <2>2, <2>3, <2>4, StepSound
<1>3. CASE HearOutcome(p)
  <2>1. SharesKept /\ UNCHANGED credit
    BY <1>3, UnchangedShares DEF HearOutcome
  <2>2. /\ UNCHANGED <<date, deal, older, strikes>> /\ work' \subseteq work
        /\ lost' = lost \/ (lost[p] < MaxLost /\ lost' = [lost EXCEPT ![p] = @ + 1])
        /\ \/ UNCHANGED contract
           \/ contract[p] = "exercising" /\ contract' = [contract EXCEPT ![p] = "active"]
    BY <1>3 DEF HearOutcome, Continue, RevertClaim, SetStatus
  <2>3. lost' \in [BuyerContracts -> 0 .. MaxLost]
    BY <1>0, <2>2, PeerOptionAssumption DEF PeerTypeOK
  <2>4. PeerTypeOK'
    BY <1>0, <2>2, <2>3 DEF PeerTypeOK, Statuses
  <2>5. SellerMove
    BY <1>0, <2>2 DEF SellerMove, PeerTypeOK
  <2>6. BuyerSound'
    BY <1>0, <2>1, <2>2 DEF PeerInv, BuyerSound, PeerTypeOK
  <2> QED BY <2>1, <2>4, <2>5, <2>6, StepSound
<1>4. CASE ExerciseBuyer(p)
  <2>1. /\ contract[p] \in {"active", "exercising"} /\ CreditBuyerHolding(p, HoldingOf[p], Qty)
        /\ contract' = [contract EXCEPT ![p] = "exercised"]
        /\ UNCHANGED <<date, work, deal, older, strikes, lost>>
    BY <1>4 DEF ExerciseBuyer, Exercisable, SetStatus
  <2>2. credit[p] = NoCredit
    BY <2>1 DEF PeerInv, BuyerSound
  <2>3. p \in CreditIds /\ HoldingOf[p] \in Rows /\ Qty \in Nat
    BY HoldingAssumption, PeerOptionAssumption DEF CreditIds, Rows
  <2>4. HoldingInv'
    BY <1>0, <2>1, <2>2, <2>3, CreditKeeps DEF CreditBuyerHolding
  <2>5. Quiet
    BY <2>1, StutterQuiet DEF CreditBuyerHolding
  <2>6. SharesKept
    BY <2>4, <2>5, QuietKeeps DEF PeerInv, SharesKept
  <2>7. PeerTypeOK'
    BY <1>0, <2>1 DEF PeerTypeOK, Statuses
  <2>8. SellerMove
    BY <1>0, <2>1 DEF SellerMove, PeerTypeOK
  <2>9. credit'[p] # NoCredit /\ \A q \in BuyerContracts \ {p} : credit'[q] = credit[q]
    BY <1>0, <2>1, <2>3, HoldingAssumption
    DEF CreditBuyerHolding, NoCredit, HoldingInv, HoldingTypeOK, CreditIds
  <2>10. BuyerSound'
    BY <1>0, <2>1, <2>9 DEF PeerInv, BuyerSound, PeerTypeOK
  <2> QED BY <2>6, <2>7, <2>8, <2>10, StepSound
<1> QED BY <1>1, <1>2, <1>3, <1>4 DEF BuyerNext

(* Minting, the days and the cron, on either side. *)
LEMMA ContractStep ==
    ASSUME PeerInv, NEW p \in PeerKeys,
           RecordOptionContract(p) \/ DayPasses(p) \/ ExpireListed(p) \/ MarkExpired(p)
    PROVE  PeerInv'
<1> USE Sides
<1>0. PeerTypeOK /\ HoldingInv
  BY DEF PeerInv
<1>1. SharesKept /\ UNCHANGED credit
  BY UnchangedShares DEF RecordOptionContract, DayPasses, ExpireListed, MarkExpired
<1>2. CASE RecordOptionContract(p)
  <2>1. /\ UNCHANGED <<date, deal, older, strikes, lost>> /\ work' \subseteq work \cup {<<"attach", p>>}
        /\ \/ UNCHANGED contract
           \/ contract[p] = "none" /\ contract' = [contract EXCEPT ![p] = "active"]
    BY <1>2 DEF RecordOptionContract, SetStatus
  <2>2. PeerTypeOK'
    BY <1>0, <2>1 DEF PeerTypeOK, Statuses
  <2>3. SellerMove
    BY <1>0, <2>1 DEF SellerMove, PeerTypeOK
  <2>4. BuyerSound'
    BY <1>0, <1>1, <2>1 DEF PeerInv, BuyerSound, PeerTypeOK
  <2> QED BY <1>1, <2>2, <2>3, <2>4, StepSound
<1>3. CASE DayPasses(p)
  <2>1. /\ UNCHANGED <<contract, work, deal, older, strikes, lost>>
        /\ p \in SellerContracts => RowsOf(p) # {}
        /\ \/ date' = [date EXCEPT ![p] = "today"]
           \/ date' = [date EXCEPT ![p] = "past"]
    BY <1>3 DEF DayPasses
  <2>2. PeerTypeOK'
    BY <1>0, <2>1 DEF PeerTypeOK
  <2>3. SellerMove
    BY <1>0, <2>1 DEF SellerMove, PeerTypeOK
  <2>4. BuyerSound'
    BY <1>1, <2>1, BuyerFrame
  <2> QED BY <1>1, <2>2, <2>3, <2>4, StepSound
<1>4. CASE ExpireListed(p)
  <2>1. /\ UNCHANGED <<contract, date, deal, older, strikes, lost>> /\ date[p] = "past"
        /\ work' = work \cup {IF p \in SellerContracts THEN <<"release", p>> ELSE <<"expire", p>>}
    BY <1>4 DEF ExpireListed
  <2>2. PeerTypeOK'
    BY <1>0, <2>1 DEF PeerTypeOK
  <2>3. SellerMove
    <3>1. p \in SellerContracts => RowsOf(p) # {}
      BY <2>1 DEF PeerInv, SellerSound
    <3> QED BY <2>1, <3>1 DEF SellerMove
  <2>4. BuyerSound'
    BY <1>1, <2>1, BuyerFrame
  <2> QED BY <1>1, <2>2, <2>3, <2>4, StepSound
<1>5. CASE MarkExpired(p)
  <2>1. /\ UNCHANGED <<date, deal, older, strikes, lost>> /\ work' \subseteq work
        /\ <<"expire", p>> \in work /\ contract' = [contract EXCEPT ![p] = "expired"]
    BY <1>5 DEF MarkExpired, SetStatus, Continue
  <2>2. PeerTypeOK'
    BY <1>0, <2>1 DEF PeerTypeOK, Statuses
  <2>3. SellerMove
    BY <1>0, <2>1 DEF SellerMove, PeerTypeOK
  <2>4. BuyerSound'
    BY <1>0, <1>1, <2>1 DEF PeerInv, BuyerSound, PeerTypeOK
  <2> QED BY <1>1, <2>2, <2>3, <2>4, StepSound
<1> QED BY <1>2, <1>3, <1>4, <1>5

LEMMA PeerInitially ==
    ASSUME Init
    PROVE  PeerInv
<1>1. HoldingInv
  BY HoldingInitially DEF Init
<1>2. PeerTypeOK
  BY PeerOptionAssumption DEF Init, PeerTypeOK, Statuses
<1>3. LinkSound /\ OneHold
  BY SellerKeys DEF Init, HoldingInit, LinkSound, OneHold, NoRow
<1>4. SellerSound /\ BuyerSound
  BY Sides DEF Init, HoldingInit, SellerSound, BuyerSound, CreditIds
<1> QED BY <1>1, <1>2, <1>3, <1>4 DEF PeerInv

LEMMA PeerInductive == PeerInv /\ [Next]_vars => PeerInv'
<1> SUFFICES ASSUME PeerInv, [Next]_vars PROVE PeerInv'
  OBVIOUS
<1>0. PeerTypeOK
  BY DEF PeerInv
<1>1. CASE OrdersAndOtc
  <2>1. SharesKept /\ UNCHANGED peerVars /\ \A p \in BuyerContracts : credit'[p] = credit[p]
    BY <1>1, OrdersAndOtcShares
  <2>2. PeerTypeOK' /\ SellerMove
    BY <1>0, <2>1 DEF peerVars, PeerTypeOK, SellerMove
  <2>3. BuyerSound'
    BY <2>1 DEF peerVars, PeerInv, BuyerSound
  <2> QED BY <2>1, <2>2, <2>3, StepSound
<1>2. CASE Crash
  <2>1. SharesKept /\ UNCHANGED credit
    BY <1>2, UnchangedShares DEF Crash
  <2>2. PeerTypeOK' /\ SellerMove /\ BuyerSound'
    BY <1>0, <1>2, <2>1, BuyerFrame DEF Crash, PeerTypeOK, SellerMove
  <2> QED BY <2>1, <2>2, StepSound
<1>3. CASE UNCHANGED vars
  <2>1. SharesKept /\ UNCHANGED credit /\ UNCHANGED peerVars
    BY <1>3, UnchangedShares DEF vars
  <2>2. PeerTypeOK' /\ SellerMove /\ BuyerSound'
    BY <1>0, <2>1, BuyerFrame DEF peerVars, PeerTypeOK, SellerMove
  <2> QED BY <2>1, <2>2, StepSound
<1> QED BY <1>1, <1>2, <1>3, SellerStep, BuyerStep, ContractStep DEF Next

(* Type correctness. *)
THEOREM TypeCorrect == Spec => [](HoldingTypeOK /\ PeerTypeOK)
<1>1. PeerInv => HoldingTypeOK /\ PeerTypeOK
  BY DEF PeerInv, HoldingInv
<1>2. Init => PeerInv
  BY PeerInitially
<1> QED BY <1>1, <1>2, PeerInductive, PTL DEF Spec

(* With peer contracts, votes, exercises and the expiry cron on top of the *)
(* service: reserved_quantity is what the active rows still hold, and is   *)
(* covered by the shares owned.                                            *)
THEOREM ReservedMatchesRowsHolds == Spec => []ReservedMatchesRows
<1>1. PeerInv => ReservedMatchesRows
  BY DEF PeerInv, HoldingInv
<1>2. Init => PeerInv
  BY PeerInitially
<1> QED BY <1>1, <1>2, PeerInductive, PTL DEF Spec

(* Shares move once per fill, contract and credit, also those of the       *)
(* buyer's exercise, which carries no idempotency key.                     *)
THEOREM SharesConservedHolds == Spec => []SharesConserved
<1>1. PeerInv => SharesConserved
  BY DEF PeerInv, HoldingInv
<1>2. Init => PeerInv
  BY PeerInitially
<1> QED BY <1>1, <1>2, PeerInductive, PTL DEF Spec

(* An exercised contract has moved its shares and an expired one holds     *)
(* none, whatever crashed, was re-sent or raced the cron.                  *)
THEOREM EndedIsSettledHolds == Spec => []EndedIsSettled
<1>1. PeerInv => EndedIsSettled
  <2> SUFFICES ASSUME PeerInv, NEW p \in PeerKeys
               PROVE  /\ contract[p] = "exercised" =>
                            IF p \in SellerContracts THEN stl[p] # NoSettlement
                            ELSE credit[p] # NoCredit
                      /\ contract[p] = "expired" /\ p \in SellerContracts =>
                            \A r \in RowsOf(p) : res[r].status # "active"
    BY DEF EndedIsSettled
  <2> QED BY Sides DEF PeerInv, SellerSound, BuyerSound, Spent
<1>2. Init => PeerInv
  BY PeerInitially
<1> QED BY <1>1, <1>2, PeerInductive, PTL DEF Spec

-----------------------------------------------------------------------------
(* The strike *)

(* A step that pays nothing, moves no share to a buyer and gives up no     *)
(* claim.                                                                  *)
LEMMA StrikeFrame ==
    ASSUME PeerInv, StrikeInv, UNCHANGED <<deal, older, strikes, lost>>,
           \A p \in BuyerContracts : credit'[p] = credit[p] /\ (Claimed(p) => Claimed(p)')
    PROVE  StrikeInv'
<1> SUFFICES ASSUME NEW p \in BuyerContracts
             PROVE  /\ Payments(p)' <= lost'[p] + IF Claimed(p)' THEN 1 ELSE 0
                    /\ credit'[p] # NoCredit => strikes'[p] >= 1
  BY DEF StrikeInv
<1>1. Payments(p)' = Payments(p) /\ Payments(p) \in Nat /\ lost[p] \in Nat
  BY PeerOptionAssumption DEF Payments, PeerInv, PeerTypeOK
<1> QED BY <1>1 DEF StrikeInv

(* Of a step on one bought contract, only that contract is in question. *)
LEMMA StrikeOne ==
    ASSUME PeerInv, StrikeInv, NEW p \in BuyerContracts,
           \A q \in BuyerContracts \ {p} :
              /\ deal'[q] = deal[q] /\ older'[q] = older[q] /\ strikes'[q] = strikes[q]
              /\ lost'[q] = lost[q] /\ contract'[q] = contract[q] /\ credit'[q] = credit[q],
           Payments(p)' <= lost'[p] + IF Claimed(p)' THEN 1 ELSE 0,
           credit'[p] # NoCredit => strikes'[p] >= 1
    PROVE  StrikeInv'
<1>1. ASSUME NEW q \in BuyerContracts \ {p}
      PROVE  /\ Payments(q)' = Payments(q) /\ Claimed(q)' = Claimed(q)
             /\ lost'[q] = lost[q] /\ credit'[q] = credit[q] /\ strikes'[q] = strikes[q]
  BY DEF Payments, Claimed
<1> QED BY <1>1 DEF StrikeInv

(* The buyer's steps: a claim adds a payment and its permission; only a    *)
(* lost answer takes the permission back while the payment is about.       *)
LEMMA BuyerPays ==
    ASSUME PeerInv, StrikeInv, NEW p \in BuyerContracts, BuyerNext(p)
    PROVE  StrikeInv'
<1> USE Sides
<1>0. PeerTypeOK /\ HoldingInv
  BY DEF PeerInv
<1>t. /\ strikes[p] \in Nat /\ older[p] \in Nat /\ lost[p] \in Nat
      /\ deal[p] \in {"none", "open", "committed", "aborted"} /\ contract[p] \in Statuses
  BY <1>0, PeerOptionAssumption DEF PeerTypeOK
<1>i. /\ strikes[p] + older[p] + (IF deal[p] = "open" THEN 1 ELSE 0)
            <= lost[p] + IF Claimed(p) THEN 1 ELSE 0
      /\ credit[p] # NoCredit => strikes[p] >= 1
  BY DEF StrikeInv, Payments
<1>1. CASE InitiateOptionExercise(p)
  <2>1. /\ UNCHANGED <<credit, strikes, lost>> /\ contract[p] = "active"
        /\ contract' = [contract EXCEPT ![p] = "exercising"]
        /\ deal' = [deal EXCEPT ![p] = "open"]
        /\ older' = [older EXCEPT ![p] = @ + IF deal[p] = "open" THEN 1 ELSE 0]
    BY <1>1 DEF InitiateOptionExercise, SetStatus, holdingVars
  <2>2. /\ contract'[p] = "exercising" /\ deal'[p] = "open"
        /\ older'[p] = older[p] + IF deal[p] = "open" THEN 1 ELSE 0
        /\ \A q \in BuyerContracts \ {p} :
              deal'[q] = deal[q] /\ older'[q] = older[q] /\ contract'[q] = contract[q]
    BY <1>0, <2>1 DEF PeerTypeOK
  <2>3. Payments(p)' <= lost'[p] + IF Claimed(p)' THEN 1 ELSE 0
    BY <1>t, <1>i, <2>1, <2>2 DEF Payments, Claimed
  <2> QED BY <1>i, <2>1, <2>2, <2>3, StrikeOne
<1>2. CASE DealCommits(p)
  <2>1. /\ UNCHANGED <<credit, contract, older, lost>> /\ deal[p] = "open"
        /\ deal' = [deal EXCEPT ![p] = "committed"]
        /\ strikes' = [strikes EXCEPT ![p] = @ + 1]
    BY <1>2 DEF DealCommits, holdingVars
  <2>2. /\ deal'[p] = "committed" /\ strikes'[p] = strikes[p] + 1
        /\ \A q \in BuyerContracts \ {p} : deal'[q] = deal[q] /\ strikes'[q] = strikes[q]
    BY <1>0, <2>1 DEF PeerTypeOK
  <2>3. Payments(p)' <= lost'[p] + IF Claimed(p)' THEN 1 ELSE 0
    BY <1>t, <1>i, <2>1, <2>2 DEF Payments, Claimed
  <2> QED BY <1>t, <1>i, <2>1, <2>2, <2>3, StrikeOne
<1>3. CASE DealAborts(p)
  <2>1. /\ UNCHANGED <<credit, contract, older, strikes, lost>> /\ deal[p] = "open"
        /\ deal' = [deal EXCEPT ![p] = "aborted"]
    BY <1>3 DEF DealAborts, holdingVars
  <2>2. /\ deal'[p] = "aborted" /\ \A q \in BuyerContracts \ {p} : deal'[q] = deal[q]
    BY <1>0, <2>1 DEF PeerTypeOK
  <2>3. Payments(p)' <= lost'[p] + IF Claimed(p)' THEN 1 ELSE 0
    BY <1>t, <1>i, <2>1, <2>2 DEF Payments, Claimed
  <2> QED BY <1>i, <2>1, <2>2, <2>3, StrikeOne
<1>4. CASE OlderEnds(p)
  <2>1. /\ UNCHANGED <<credit, contract, deal, lost>> /\ older[p] > 0
        /\ older' = [older EXCEPT ![p] = @ - 1]
        /\ strikes' = [strikes EXCEPT ![p] = @ + 1] \/ UNCHANGED strikes
    BY <1>4 DEF OlderEnds, holdingVars
  <2>2. /\ older'[p] = older[p] - 1 /\ strikes'[p] \in {strikes[p], strikes[p] + 1}
        /\ \A q \in BuyerContracts \ {p} : older'[q] = older[q] /\ strikes'[q] = strikes[q]
    BY <1>0, <2>1 DEF PeerTypeOK
  <2>3. Payments(p)' <= lost'[p] + IF Claimed(p)' THEN 1 ELSE 0
    BY <1>t, <1>i, <2>1, <2>2 DEF Payments, Claimed
  <2> QED BY <1>t, <1>i, <2>1, <2>2, <2>3, StrikeOne
<1>5. CASE HearOutcome(p)
  <2>1. /\ UNCHANGED <<credit, deal, older, strikes>>
        /\ \/ UNCHANGED lost /\ UNCHANGED contract
           \/ UNCHANGED lost /\ deal[p] = "aborted" /\ contract' = [contract EXCEPT ![p] = "active"]
           \/ /\ lost' = [lost EXCEPT ![p] = @ + 1]
              /\ UNCHANGED contract \/ contract' = [contract EXCEPT ![p] = "active"]
    BY <1>5 DEF HearOutcome, RevertClaim, SetStatus, holdingVars
  <2>2. \A q \in BuyerContracts \ {p} : lost'[q] = lost[q] /\ contract'[q] = contract[q]
    BY <1>0, <2>1 DEF PeerTypeOK
  <2>3. \/ lost'[p] = lost[p] /\ (deal[p] = "aborted" \/ contract'[p] = contract[p])
        \/ lost'[p] = lost[p] + 1
    BY <1>0, <2>1 DEF PeerTypeOK
  <2>4. Payments(p)' <= lost'[p] + IF Claimed(p)' THEN 1 ELSE 0
    BY <1>t, <1>i, <2>1, <2>3 DEF Payments, Claimed
  <2> QED BY <1>i, <2>1, <2>2, <2>4, StrikeOne
<1>6. CASE ExerciseBuyer(p)
  <2>1. /\ strikes[p] > 0 /\ UNCHANGED <<deal, older, strikes, lost>>
        /\ contract' = [contract EXCEPT ![p] = "exercised"]
        /\ credit' = [credit EXCEPT ![p] = [holding |-> HoldingOf[p], quantity |-> Qty]]
    BY <1>6 DEF ExerciseBuyer, SetStatus, CreditBuyerHolding
  <2>2. \A q \in BuyerContracts \ {p} : credit'[q] = credit[q] /\ contract'[q] = contract[q]
    BY <1>0, <2>1 DEF PeerTypeOK, HoldingInv, HoldingTypeOK, CreditIds
  <2>3. contract'[p] = "exercised"
    BY <1>0, <2>1 DEF PeerTypeOK
  <2>4. Payments(p)' <= lost'[p] + IF Claimed(p)' THEN 1 ELSE 0
    BY <1>t, <1>i, <2>1, <2>3 DEF Payments, Claimed
  <2> QED BY <1>t, <2>1, <2>2, <2>4, StrikeOne
<1> QED BY <1>1, <1>2, <1>3, <1>4, <1>5, <1>6 DEF BuyerNext

LEMMA StrikeInductive == PeerInv /\ StrikeInv /\ [Next]_vars => StrikeInv'
<1> SUFFICES ASSUME PeerInv, StrikeInv, [Next]_vars PROVE StrikeInv'
  OBVIOUS
<1> USE Sides
<1>0. PeerTypeOK /\ HoldingInv
  BY DEF PeerInv
<1>1. CASE OrdersAndOtc
  BY <1>1, OrdersAndOtcShares, StrikeFrame DEF peerVars, Claimed
<1>2. ASSUME NEW p \in SellerContracts, SellerNext(p) PROVE StrikeInv'
  <2>1. UNCHANGED <<deal, older, strikes, lost, credit>>
    BY <1>2 DEF SellerNext, VoteHolds, VoteReleased, AttachHold, ReserveAtCommit,
         ExerciseSeller, ConsumeShares, MarkExercised, ExpireRelease,
         ReserveForCrossBankNewTx, HoldShares, ReleaseForCrossBankNewTx, ReleaseRow,
         AttachCrossBankReservation, ConsumeForPeerOptionContract,
         ReserveForPeerOptionContract, SettleRow, ReleaseForPeerOptionContract,
         holdingVars, peerVars
  <2>2. UNCHANGED contract \/ contract' = [contract EXCEPT ![p] = "exercised"]
    BY <1>2 DEF SellerNext, VoteHolds, VoteReleased, AttachHold, ReserveAtCommit,
         ExerciseSeller, ConsumeShares, MarkExercised, ExpireRelease, SetStatus, peerVars
  <2>3. \A q \in BuyerContracts : contract'[q] = contract[q]
    BY <1>0, <2>2 DEF PeerTypeOK
  <2> QED BY <2>1, <2>3, StrikeFrame DEF Claimed
<1>3. ASSUME NEW p \in PeerKeys,
             RecordOptionContract(p) \/ DayPasses(p) \/ ExpireListed(p) \/ MarkExpired(p)
      PROVE  StrikeInv'
  <2>1. /\ UNCHANGED <<credit, deal, older, strikes, lost>>
        /\ \/ UNCHANGED contract
           \/ contract[p] = "none" /\ contract' = [contract EXCEPT ![p] = "active"]
           \/ contract' = [contract EXCEPT ![p] = "expired"]
    BY <1>3 DEF RecordOptionContract, DayPasses, ExpireListed, MarkExpired, SetStatus,
         holdingVars
  <2>2. /\ \A q \in BuyerContracts \ {p} : contract'[q] = contract[q]
        /\ contract'[p] \in {"none", "active"} => contract[p] \in {"none", "active"}
    BY <1>0, <2>1 DEF PeerTypeOK
  <2> QED BY <2>1, <2>2, StrikeFrame DEF Claimed
<1>4. CASE Crash
  BY <1>4, StrikeFrame DEF Crash, holdingVars, Claimed
<1>5. CASE UNCHANGED vars
  BY <1>5, StrikeFrame DEF vars, holdingVars, peerVars, Claimed
<1> QED BY <1>1, <1>2, <1>3, <1>4, <1>5, BuyerPays DEF Next

(* The claim active -> exercising lets a buyer pay the strike of a         *)
(* contract once, and once more per answer that was lost; and shares come  *)
(* only for a strike that was paid.                                        *)
THEOREM StrikePaidOnceHolds == Spec => []StrikePaidOnce
<1>1. Init => PeerInv /\ StrikeInv
  <2>1. ASSUME Init PROVE StrikeInv
    BY <2>1, Sides DEF Init, HoldingInit, StrikeInv, Payments, Claimed, CreditIds
  <2> QED BY <2>1, PeerInitially
<1>2. PeerInv /\ StrikeInv /\ [Next]_vars => PeerInv' /\ StrikeInv'
  BY PeerInductive, StrikeInductive
<1>3. PeerInv /\ StrikeInv => StrikePaidOnce
  <2> SUFFICES ASSUME PeerInv, StrikeInv, NEW p \in BuyerContracts
               PROVE  strikes[p] <= 1 + lost[p] /\ (credit[p] # NoCredit => strikes[p] >= 1)
    BY DEF StrikePaidOnce
  <2>1. strikes[p] \in Nat /\ older[p] \in Nat /\ lost[p] \in Nat
    BY PeerOptionAssumption DEF PeerInv, PeerTypeOK
  <2> QED BY <2>1 DEF StrikeInv, Payments
<1> QED BY <1>1, <1>2, <1>3, PTL DEF Spec
=============================================================================
