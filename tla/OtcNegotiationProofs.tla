------------------------ MODULE OtcNegotiationProofs ------------------------
(***************************************************************************)
(* Proofs about OtcNegotiation, for any bidders, quantities and numbers of *)
(* listings, bids, counter-offers, failing writes and crashes.             *)
(***************************************************************************)
EXTENDS OtcNegotiation, TLAPS

ListingStatuses == {"none", "open", "consumed", "cancelled"}
ChainStatuses   == {"none", "open", "countered", "accepted", "rejected", "cancelled", "failed"}
Pcs             == {"none", "form", "relist", "link", "restore", "mark", "recover"}
PeerPcs         == {"idle", "forming", "formed", "failed", "done", "missed"}
Names           == Parties \cup {None}

Listing == [status : ListingStatuses, qty : Nat]
Chain   == [status : ChainStatuses, by : Names, proposer : Names, qty : Nat]
Call    == [pc : Pcs, winner : Bidders \cup {None},
            prior : [Bidders -> ChainStatuses], before : [Bidders -> ChainStatuses]]

Typed ==
    /\ listing \in [Listings -> Listing]
    /\ \A l \in Listings : listing[l].status # "none" => listing[l].qty > 0
    /\ chain \in [Listings -> [Bidders -> Chain]]
    /\ turns \in 0..MaxTurns
    /\ call \in [Listings -> Call]
    /\ contracts \subseteq Listings \X Bidders
    /\ linked \subseteq contracts
    /\ peer \in [pc : PeerPcs, on : Nat, qty : Nat]
    /\ origin \in [Listings -> [parent : Nat, qty : Nat]]
    /\ dbFails \in 0..MaxDbFails /\ crashes \in 0..MaxCrashes

TakenByPeer(l) == peer.pc = "done" /\ peer.on = l

(* A listing and its chains. *)
RowsOf(l) ==
    /\ listing[l].status = "none" => \A b \in Bidders : chain[l][b].status = "none"
    /\ IsOpenListing(l) => \A b \in Bidders : chain[l][b].status # "accepted"
    /\ OpenChains(l) # {} => IsOpenListing(l) \/ TakenByPeer(l)
    /\ TakenByPeer(l) => listing[l].status = "consumed"

(* The call that consumed it: one chain is accepted, and what the cascade  *)
(* cancelled is on record.                                                 *)
CallOf(l) ==
    call[l].pc # "none" =>
        /\ listing[l].status = "consumed" /\ ~TakenByPeer(l)
        /\ call[l].winner \in Bidders
        /\ \A b \in Bidders : chain[l][b].status = "accepted" <=> b = call[l].winner
        /\ \A b \in Bidders : call[l].prior[b] \in {"none", "open", "countered"}
        /\ \A b \in Bidders \ {call[l].winner} :
               call[l].before[b] \in {"open", "countered"} => call[l].prior[b] = call[l].before[b]
        /\ call[l].pc \in {"relist", "link"} <=> \E b \in Bidders : <<l, b>> \in contracts
        /\ call[l].pc = "mark" => l \in unrestored
        /\ call[l].pc = "recover" => crashes > 0

(* The contract it ended in. *)
ContractOf(l) ==
    /\ \A b \in Bidders : <<l, b>> \in contracts =>
          /\ listing[l].status = "consumed" /\ ~TakenByPeer(l)
          /\ chain[l][b].status = "accepted"
          /\ \A c \in Bidders : <<l, c>> \in contracts => b = c
    /\ crashes = 0 /\ listing[l].status = "consumed" /\ call[l].pc = "none"
          => (\E b \in Bidders : <<l, b>> \in contracts) \/ l \in unrestored \/ TakenByPeer(l)

(* What its remainder was cut from. *)
Adds(p, rest, sold) == rest + sold = listing[p].qty

OriginOf(m) ==
    LET p == origin[m].parent IN
    p # 0 => /\ p \in Listings
             /\ \/ TakenByPeer(p) /\ Adds(p, origin[m].qty, peer.qty)
                \/ \E b \in Bidders : <<p, b>> \in contracts
                                      /\ Adds(p, origin[m].qty, chain[p][b].qty)

OneOpen == \A l, m \in Listings : IsOpenListing(l) /\ IsOpenListing(m) => l = m

NegInv ==
    /\ Typed /\ OneOpen
    /\ \A l \in Listings : RowsOf(l) /\ CallOf(l) /\ ContractOf(l) /\ OriginOf(l)

-----------------------------------------------------------------------------
(* Typing *)

(* A cascade keeps the rows of their kind; it closes the open chains but   *)
(* one.                                                                    *)
LEMMA CancelChains ==
    ASSUME Typed, NEW l \in Listings, NEW keep, NEW who \in Names
    PROVE  /\ Cancel(l, keep, who) \in [Bidders -> Chain]
           /\ \A b \in Bidders :
                 /\ b \in OpenChains(l) \ {keep} => Cancel(l, keep, who)[b].status = "cancelled"
                 /\ b \notin OpenChains(l) \ {keep} => Cancel(l, keep, who)[b] = chain[l][b]
<1>1. chain[l] \in [Bidders -> Chain]
  BY DEF Typed
<1>2. ASSUME NEW b \in Bidders, b \in OpenChains(l) \ {keep}
      PROVE  Cancel(l, keep, who)[b] \in Chain /\ Cancel(l, keep, who)[b].status = "cancelled"
  <2>1. Cancel(l, keep, who)[b] = [chain[l][b] EXCEPT !.status = "cancelled", !.by = who]
    BY <1>2 DEF Cancel
  <2> QED BY <1>1, <2>1 DEF Chain, ChainStatuses
<1>3. ASSUME NEW b \in Bidders, b \notin OpenChains(l) \ {keep}
      PROVE  Cancel(l, keep, who)[b] \in Chain /\ Cancel(l, keep, who)[b] = chain[l][b]
  BY <1>1, <1>3 DEF Cancel
<1>4. Cancel(l, keep, who) \in [Bidders -> Chain]
  <2>1. Cancel(l, keep, who) = [b \in Bidders |-> Cancel(l, keep, who)[b]]
    BY DEF Cancel
  <2>2. \A b \in Bidders : Cancel(l, keep, who)[b] \in Chain
    BY <1>2, <1>3
  <2> QED BY <2>1, <2>2
<1> QED BY <1>2, <1>3, <1>4

(* Rows without a chain, and ended calls. *)
LEMMA Blank ==
    /\ NoChain \in Chain /\ \A st \in ChainStatuses : Closed(st) \in Chain /\ Closed(st).status = st
    /\ NoCall \in Call /\ NoCall.pc = "none"
BY DEF NoChain, NoCall, Closed, Chain, Call, ChainStatuses, Pcs, Names

(* Steps on one call. *)
LEMMA CallMoves ==
    ASSUME Typed, NEW l \in Listings
    PROVE  /\ Ends(l) => call' \in [Listings -> Call] /\ call'[l].pc = "none"
           /\ \A pc \in Pcs : GoTo(l, pc) =>
                 /\ call' \in [Listings -> Call]
                 /\ call'[l].pc = pc /\ call'[l].winner = call[l].winner
                 /\ call'[l].prior = call[l].prior /\ call'[l].before = call[l].before
           /\ (Ends(l) \/ \E pc \in Pcs : GoTo(l, pc)) =>
                 \A m \in Listings : m # l => call'[m] = call[m]
<1>1. Ends(l) => /\ call' \in [Listings -> Call] /\ call'[l].pc = "none"
                 /\ \A m \in Listings : m # l => call'[m] = call[m]
  BY Blank DEF Ends, Typed
<1>2. ASSUME NEW pc \in Pcs, GoTo(l, pc)
      PROVE  /\ call' \in [Listings -> Call]
             /\ call'[l].pc = pc /\ call'[l].winner = call[l].winner
             /\ call'[l].prior = call[l].prior /\ call'[l].before = call[l].before
             /\ \A m \in Listings : m # l => call'[m] = call[m]
  <2>1. PICK c : c = [call[l] EXCEPT !.pc = pc]
    OBVIOUS
  <2>2. /\ c \in Call /\ c.pc = pc /\ c.winner = call[l].winner
        /\ c.prior = call[l].prior /\ c.before = call[l].before
    BY <2>1 DEF Typed, Call
  <2>3. call' = [call EXCEPT ![l] = c]
    BY <1>2, <2>1 DEF GoTo, Typed
  <2> QED BY <2>2, <2>3 DEF Typed
<1> QED BY <1>1, <1>2

(* The rows keep their types. *)
LEMMA TypedStep ==
    ASSUME NegInv, [Next]_vars
    PROVE  Typed'
<1>1. Typed /\ \A l \in Listings : CallOf(l)
  BY DEF NegInv
<1> USE NegotiationAssumption DEF rows, history
<1>2. ASSUME NEW l \in Listings, NEW q \in Quantities, Create(l, q) \/ UpdateQuantity(l, q) PROVE Typed'
  <2>1. PICK r : /\ r \in Listing /\ r.qty > 0
                 /\ listing' = [listing EXCEPT ![l] = r]
    <3>1. CASE Create(l, q)
      <4>1. PICK r : r = [status |-> "open", qty |-> q]
        OBVIOUS
      <4>2. r \in Listing /\ r.qty > 0
        BY <4>1 DEF Listing, ListingStatuses
      <4> QED BY <3>1, <4>1, <4>2 DEF Create
    <3>2. CASE UpdateQuantity(l, q)
      <4>1. PICK r : r = [listing[l] EXCEPT !.qty = q]
        OBVIOUS
      <4>2. r \in Listing /\ r.qty > 0
        BY <1>1, <4>1 DEF Listing, Typed
      <4>3. listing' = [listing EXCEPT ![l] = r]
        BY <1>1, <3>2, <4>1 DEF UpdateQuantity, Typed
      <4> QED BY <4>2, <4>3
    <3> QED BY <1>2, <3>1, <3>2
  <2>2. UNCHANGED <<chain, turns, call, contracts, linked, peer, origin, history, dbFails, crashes>>
    BY <1>2 DEF Create, UpdateQuantity
  <2>3. \A m \in Listings : listing'[m] = listing[m] \/ listing'[m] = r
    BY <1>1, <2>1 DEF Typed
  <2> QED BY <1>1, <2>1, <2>2, <2>3 DEF Typed
<1>3. ASSUME NEW l \in Listings, CancelListing(l) PROVE Typed'
  <2>1. Cancel(l, None, Poster) \in [Bidders -> Chain]
    BY <1>1, CancelChains DEF Names, Parties
  <2>2. chain' \in [Listings -> [Bidders -> Chain]]
    BY <1>1, <1>3, <2>1 DEF CancelListing, Typed
  <2>3. /\ listing' \in [Listings -> Listing]
        /\ \A m \in Listings : listing'[m].qty = listing[m].qty
                               /\ (listing'[m].status # "none" => listing[m].status # "none")
    BY <1>1, <1>3 DEF CancelListing, IsOpenListing, Typed, Listing, ListingStatuses
  <2> QED BY <1>1, <1>3, <2>2, <2>3 DEF CancelListing, Typed
<1>4. ASSUME NEW l \in Listings, NEW b \in Bidders, NEW c \in Chain, turns' \in 0..MaxTurns,
             chain' = [chain EXCEPT ![l][b] = c],
             UNCHANGED <<listing, call, contracts, linked, peer, origin, dbFails, crashes>>
      PROVE  Typed'
  BY <1>1, <1>4 DEF Typed
<1>5. ASSUME NEW l \in Listings, NEW b \in Bidders, NEW q \in BidQuantities,
             OpenNegotiation(l, b, q)
      PROVE  Typed'
  <2>1. PICK c : c = [status |-> "open", by |-> b, proposer |-> b, qty |-> q]
    OBVIOUS
  <2>2. c \in Chain
    BY <2>1 DEF Chain, ChainStatuses, Names, Parties
  <2> QED BY <1>1, <1>4, <1>5, <2>1, <2>2 DEF OpenNegotiation, Typed
<1>6. ASSUME NEW l \in Listings, NEW b \in Bidders, NEW who \in Parties, NEW q \in BidQuantities,
             CounterNegotiation(l, b, who, q)
      PROVE  Typed'
  <2>1. PICK c : c = [status |-> "countered", by |-> who, proposer |-> who, qty |-> q]
    OBVIOUS
  <2>2. c \in Chain
    BY <2>1 DEF Chain, ChainStatuses, Names
  <2>3. turns' \in 0..MaxTurns
    BY <1>1, <1>6 DEF CounterNegotiation, Typed
  <2> QED BY <1>1, <1>4, <1>6, <2>1, <2>2, <2>3 DEF CounterNegotiation
<1>7. ASSUME NEW l \in Listings, NEW b \in Bidders, NEW who,
             RejectNegotiation(l, b, who) \/ CancelNegotiation(l, b)
      PROVE  Typed'
  <2>1. PICK c \in Chain : chain' = [chain EXCEPT ![l][b] = c]
    BY <1>7, Blank DEF RejectNegotiation, CancelNegotiation, ChainStatuses
  <2> QED BY <1>1, <1>4, <1>7, <2>1 DEF RejectNegotiation, CancelNegotiation, Typed
<1>8. ASSUME NEW l \in Listings, NEW b \in Bidders, NEW who \in Parties, NEW account \in BOOLEAN,
             AcceptNegotiation(l, b, who, account)
      PROVE  Typed'
  <2>1. Cancel(l, b, who) \in [Bidders -> Chain]
    BY <1>1, CancelChains DEF Names
  <2>2. PICK f : f = [Cancel(l, b, who) EXCEPT ![b].status = "accepted", ![b].by = who]
    OBVIOUS
  <2>3. f \in [Bidders -> Chain]
    BY ZenonT(40), <2>1, <2>2 DEF Chain, ChainStatuses, Names
  <2>4. chain' \in [Listings -> [Bidders -> Chain]]
    BY <1>1, <1>8, <2>2, <2>3 DEF AcceptNegotiation, Typed
  <2>5. PICK c : c = [pc |-> IF account THEN "form" ELSE "restore", winner |-> b,
                      prior |-> Prior(l, b), before |-> [e \in Bidders |-> chain[l][e].status]]
    OBVIOUS
  <2>6. c \in Call
    <3>1. Prior(l, b) \in [Bidders -> ChainStatuses]
      BY <1>1 DEF Prior, Typed, Chain, ChainStatuses
    <3>2. [e \in Bidders |-> chain[l][e].status] \in [Bidders -> ChainStatuses]
      BY <1>1 DEF Typed, Chain
    <3> QED BY <2>5, <3>1, <3>2 DEF Call, Pcs
  <2>7. call' \in [Listings -> Call]
    BY <1>1, <1>8, <2>5, <2>6 DEF AcceptNegotiation, Typed
  <2>8. /\ listing' \in [Listings -> Listing]
        /\ \A m \in Listings : listing'[m].qty = listing[m].qty
                               /\ (listing'[m].status # "none" => listing[m].status # "none")
    BY <1>1, <1>8 DEF AcceptNegotiation, Consume, IsOpenListing, Typed, Listing,
          ListingStatuses
  <2> QED BY <1>1, <1>8, <2>4, <2>7, <2>8 DEF AcceptNegotiation, Typed
<1>9. ASSUME NEW l \in Listings, CallStep(l) PROVE Typed'
  <2>1. CASE Forms(l)
    <3>1. call[l].winner \in Bidders /\ call' \in [Listings -> Call]
      BY <1>1, <2>1, CallMoves DEF Forms, CallOf, Pcs
    <3> QED BY <1>1, <2>1, <3>1 DEF Forms, Typed
  <2>2. CASE FormationFails(l)
    <3>1. call' \in [Listings -> Call]
      BY <1>1, <2>2, CallMoves DEF FormationFails, Pcs
    <3> QED BY <1>1, <2>2, <3>1 DEF FormationFails, Typed
  <2>3. CASE relistAcceptRemainder(l)
    <3>1. call' \in [Listings -> Call] /\ call[l].winner \in Bidders
      BY <1>1, <2>3, CallMoves DEF relistAcceptRemainder, CallOf, Pcs
    <3>2. UNCHANGED <<chain, turns, contracts, linked, peer, crashes>> /\ dbFails' \in 0..MaxDbFails
      BY <1>1, <2>3 DEF relistAcceptRemainder, DbFails, Typed
    <3>3. CASE UNCHANGED <<listing, origin>>
      BY <1>1, <3>1, <3>2, <3>3 DEF Typed
    <3>4. CASE \E m \in Listings : /\ HasRemainder(l, chain[l][call[l].winner].qty)
                                   /\ Relisted(listing, l, m, chain[l][call[l].winner].qty)
      <4> DEFINE q == chain[l][call[l].winner].qty
      <4>1. Remainder(l, q) \in Nat /\ Remainder(l, q) > 0
        BY <1>1, <3>1, <3>4 DEF HasRemainder, Remainder, Typed, Listing, Chain
      <4>2. PICK m \in Listings, r \in Listing, o \in [parent : Nat, qty : Nat] :
               /\ r.qty > 0
               /\ listing' = [listing EXCEPT ![m] = r] /\ origin' = [origin EXCEPT ![m] = o]
        <5>1. PICK m \in Listings : Relisted(listing, l, m, q)
          BY <3>4
        <5>2. PICK r, o : /\ r = [status |-> "open", qty |-> Remainder(l, q)]
                          /\ o = [parent |-> l, qty |-> Remainder(l, q)]
          OBVIOUS
        <5>3. r \in Listing /\ r.qty > 0 /\ o \in [parent : Nat, qty : Nat]
          BY <4>1, <5>2 DEF Listing, ListingStatuses, Listings
        <5> QED BY <5>1, <5>2, <5>3 DEF Relisted
      <4>3. \A n \in Listings : listing'[n] = listing[n] \/ listing'[n] = r
        BY <1>1, <4>2 DEF Typed
      <4>4. listing' \in [Listings -> Listing] /\ origin' \in [Listings -> [parent : Nat, qty : Nat]]
        BY <1>1, <4>2 DEF Typed
      <4> QED BY <1>1, <3>1, <3>2, <4>2, <4>3, <4>4 DEF Typed
    <3> QED BY <2>3, <3>3, <3>4 DEF relistAcceptRemainder
  <2>4. CASE LinkContract(l)
    <3>1. call' \in [Listings -> Call]
      BY <1>1, <2>4, CallMoves DEF LinkContract
    <3>2. <<l, call[l].winner>> \in contracts
      <4>1. PICK b \in Bidders : <<l, b>> \in contracts
        BY <1>1, <2>4 DEF LinkContract, CallOf
      <4>2. chain[l][b].status = "accepted"
        BY <4>1 DEF NegInv, ContractOf
      <4> QED BY <1>1, <2>4, <4>1, <4>2 DEF LinkContract, CallOf
    <3>3. linked' \subseteq contracts
      <4>1. linked \subseteq contracts
        BY <1>1 DEF Typed
      <4>2. linked' = linked \cup {<<l, call[l].winner>>} \/ linked' = linked
        BY <2>4 DEF LinkContract
      <4> QED BY <3>2, <4>1, <4>2
    <3>4. dbFails' \in 0..MaxDbFails
      BY <1>1, <2>4 DEF LinkContract, DbFails, Typed
    <3> QED BY <1>1, <2>4, <3>1, <3>3, <3>4 DEF LinkContract, Typed
  <2>5. CASE restoreListing(l)
    <3>1. /\ call' \in [Listings -> Call] /\ call[l].winner \in Bidders
          /\ listing[l].status = "consumed"
      BY <1>1, <2>5, CallMoves DEF restoreListing, CallOf
    <3>2. Restored(l) \in [Bidders -> Chain]
      <4>1. \A b \in Bidders : call[l].prior[b] \in ChainStatuses /\ chain[l][b] \in Chain
        BY <1>1 DEF Typed, Call
      <4>2. \A b \in Bidders : [chain[l][b] EXCEPT !.status = call[l].prior[b]] \in Chain
        BY <4>1 DEF Chain
      <4> QED BY <4>1, <4>2 DEF Restored
    <3>3. PICK f : f = [Restored(l) EXCEPT ![call[l].winner].status = "failed"]
      OBVIOUS
    <3>4. f \in [Bidders -> Chain]
      BY <3>1, <3>2, <3>3 DEF Chain, ChainStatuses
    <3>5. chain' \in [Listings -> [Bidders -> Chain]]
      BY <1>1, <2>5, <3>3, <3>4 DEF restoreListing, Typed
    <3>6. /\ listing' \in [Listings -> Listing]
          /\ \A m \in Listings : listing'[m].qty = listing[m].qty
                                 /\ (listing'[m].status # "none" => listing[m].status # "none")
      BY <1>1, <2>5, <3>1 DEF restoreListing, Typed, Listing, ListingStatuses
    <3> QED BY <1>1, <2>5, <3>1, <3>5, <3>6 DEF restoreListing, Typed
  <2>6. CASE RestoreFails(l)
    <3>1. call' \in [Listings -> Call] /\ dbFails' \in 0..MaxDbFails
      BY <1>1, <2>6, CallMoves DEF RestoreFails, DbFails, Typed, Pcs
    <3> QED BY <1>1, <2>6, <3>1 DEF RestoreFails, Typed
  <2>7. CASE markNegotiationFailed(l)
    <3>1. /\ call' \in [Listings -> Call] /\ dbFails' \in 0..MaxDbFails
          /\ call[l].winner \in Bidders
      BY <1>1, <2>7, CallMoves DEF markNegotiationFailed, DbFails, Typed, CallOf
    <3>2. chain' \in [Listings -> [Bidders -> Chain]]
      <4>1. CASE chain' = [chain EXCEPT ![l][call[l].winner].status = "failed"]
        <5>1. PICK c : c = [chain[l][call[l].winner] EXCEPT !.status = "failed"]
          OBVIOUS
        <5>2. chain \in [Listings -> [Bidders -> Chain]]
          BY <1>1 DEF Typed
        <5>3. c \in Chain
          BY SMTT(40), <3>1, <5>1, <5>2 DEF Chain, ChainStatuses
        <5>4. chain' = [chain EXCEPT ![l][call[l].winner] = c]
          BY <3>1, <4>1, <5>1, <5>2
        <5> QED BY <3>1, <5>2, <5>3, <5>4
      <4> QED BY <1>1, <2>7, <4>1 DEF markNegotiationFailed, Typed
    <3> QED BY <1>1, <2>7, <3>1, <3>2 DEF markNegotiationFailed, Typed
  <2>8. CASE RecoverAcceptNegotiationSaga(l)
    <3>1. call' \in [Listings -> Call] /\ call[l].winner \in Bidders
      BY <1>1, <2>8, CallMoves DEF RecoverAcceptNegotiationSaga, CallOf
    <3>2. contracts' \subseteq Listings \X Bidders /\ contracts \subseteq contracts'
      BY <1>1, <2>8, <3>1 DEF RecoverAcceptNegotiationSaga, Typed
    <3> QED BY <1>1, <2>8, <3>1, <3>2 DEF RecoverAcceptNegotiationSaga, Typed
  <2> QED BY <1>9, <2>1, <2>2, <2>3, <2>4, <2>5, <2>6, <2>7, <2>8 DEF CallStep
<1>10. ASSUME NEW l \in Listings, NEW q \in BidQuantities, PeerGate(l, q) PROVE Typed'
  BY <1>1, <1>10 DEF PeerGate, Typed, PeerPcs, Listings
<1>11. CASE PeerSettles \/ ConsumeNothingForSeller
  <2>1. peer' \in [pc : PeerPcs, on : Nat, qty : Nat] /\ dbFails' \in 0..MaxDbFails
    BY <1>1, <1>11 DEF PeerSettles, ConsumeNothingForSeller, DbFails, Typed, PeerPcs
  <2> QED BY <1>1, <1>11, <2>1 DEF PeerSettles, ConsumeNothingForSeller, Typed
<1>12. ASSUME NEW l \in Listings, ConsumeLocalSellOfferForSeller(l) PROVE Typed'
  <2>1. peer' \in [pc : PeerPcs, on : Nat, qty : Nat]
    <3>1. peer \in [pc : PeerPcs, on : Nat, qty : Nat] /\ l \in Nat
      BY <1>1 DEF Typed, Listings
    <3>2. peer' = [peer EXCEPT !.pc = "done", !.on = l]
      BY <1>12 DEF ConsumeLocalSellOfferForSeller
    <3> QED BY <3>1, <3>2 DEF PeerPcs
  <2>2. /\ Consume(l) \in [Listings -> Listing]
        /\ \A m \in Listings : Consume(l)[m].status # "none" => Consume(l)[m].qty > 0
    BY <1>1, <1>12 DEF ConsumeLocalSellOfferForSeller, Consume, IsOpenListing, Typed,
          Listing,
          ListingStatuses
  <2>3. CASE listing' = Consume(l) /\ UNCHANGED origin
    BY <1>1, <1>12, <2>1, <2>2, <2>3 DEF ConsumeLocalSellOfferForSeller, Typed
  <2>4. CASE HasRemainder(l, peer.qty)
             /\ \E m \in Listings : Relisted(Consume(l), l, m, peer.qty)
    <3>1. Remainder(l, peer.qty) \in Nat /\ Remainder(l, peer.qty) > 0
      BY <1>1, <2>4 DEF HasRemainder, Remainder, Typed, Listing
    <3>2. PICK m \in Listings, r \in Listing, o \in [parent : Nat, qty : Nat] :
             /\ r.qty > 0
             /\ listing' = [Consume(l) EXCEPT ![m] = r] /\ origin' = [origin EXCEPT ![m] = o]
      <4>1. PICK m \in Listings : Relisted(Consume(l), l, m, peer.qty)
        BY <2>4
      <4>2. PICK r, o : /\ r = [status |-> "open", qty |-> Remainder(l, peer.qty)]
                        /\ o = [parent |-> l, qty |-> Remainder(l, peer.qty)]
        OBVIOUS
      <4>3. r \in Listing /\ r.qty > 0 /\ o \in [parent : Nat, qty : Nat]
        BY <3>1, <4>2 DEF Listing, ListingStatuses, Listings
      <4> QED BY <4>1, <4>2, <4>3 DEF Relisted
    <3>3. \A n \in Listings : listing'[n] = Consume(l)[n] \/ listing'[n] = r
      BY <2>2, <3>2
    <3>4. listing' \in [Listings -> Listing] /\ origin' \in [Listings -> [parent : Nat, qty : Nat]]
      BY <1>1, <2>2, <3>2 DEF Typed
    <3> QED BY <1>1, <1>12, <2>1, <2>2, <3>2, <3>3, <3>4
          DEF ConsumeLocalSellOfferForSeller, Typed
  <2> QED BY <1>12, <2>3, <2>4 DEF ConsumeLocalSellOfferForSeller
<1>13. CASE Crash
  <2>1. ASSUME NEW l \in Listings PROVE [call[l] EXCEPT !.pc = "recover"] \in Call
    <3>1. call[l] \in Call
      BY <1>1 DEF Typed
    <3> QED BY <3>1 DEF Call, Pcs
  <2>2. call' \in [Listings -> Call]
    BY <1>13, <2>1, Blank DEF Crash
  <2>3. crashes' \in 0..MaxCrashes
    BY <1>1, <1>13 DEF Crash, Typed
  <2> QED BY <1>1, <1>13, <2>2, <2>3 DEF Crash, Typed
<1>14. CASE UNCHANGED vars
  BY <1>1, <1>14 DEF vars, Typed
<1> QED BY <1>2, <1>3, <1>5, <1>6, <1>7, <1>8, <1>9, <1>10, <1>11, <1>12, <1>13,
      <1>14 DEF Next

-----------------------------------------------------------------------------
(* What a step does not touch *)

(* A listing no step touches keeps its rows, its call and its contract. *)
LEMMA Frame ==
    ASSUME NEW m \in Listings, RowsOf(m), CallOf(m), ContractOf(m),
           listing'[m] = listing[m], chain'[m] = chain[m], call'[m] = call[m],
           \A b \in Bidders : <<m, b>> \in contracts' <=> <<m, b>> \in contracts,
           m \in unrestored => m \in unrestored', crashes' = crashes,
           TakenByPeer(m)' <=> TakenByPeer(m)
    PROVE  RowsOf(m)' /\ CallOf(m)' /\ ContractOf(m)'
<1>1. RowsOf(m)'
  BY DEF RowsOf, OpenChains, IsOpenListing
<1>2. CallOf(m)'
  BY DEF CallOf
<1>3. ContractOf(m)'
  BY DEF ContractOf
<1> QED BY <1>1, <1>2, <1>3

(* A remainder goes on adding up while the quantity of the listing it was  *)
(* cut from and of what was sold stay.                                     *)
LEMMA OriginKept ==
    ASSUME NEW n \in Listings, OriginOf(n), origin'[n] = origin[n],
           \A p \in Listings : TakenByPeer(p) =>
               TakenByPeer(p)' /\ peer'.qty = peer.qty /\ listing'[p].qty = listing[p].qty,
           \A p \in Listings, b \in Bidders : <<p, b>> \in contracts =>
               /\ <<p, b>> \in contracts' /\ listing'[p].qty = listing[p].qty
               /\ chain'[p][b].qty = chain[p][b].qty
    PROVE  OriginOf(n)'
BY DEF OriginOf, Adds

(* A row just posted has no chain, no call and no contract. *)
LEMMA PostedRow ==
    ASSUME NegInv, NEW m \in Listings, listing[m].status = "none",
           listing'[m].status = "open", chain'[m] = chain[m], call'[m] = call[m],
           \A b \in Bidders : <<m, b>> \in contracts' <=> <<m, b>> \in contracts,
           ~TakenByPeer(m)'
    PROVE  RowsOf(m)' /\ CallOf(m)' /\ ContractOf(m)'
<1>1. RowsOf(m) /\ CallOf(m) /\ ContractOf(m)
  BY DEF NegInv
<1>2. RowsOf(m)'
  BY <1>1 DEF RowsOf, OpenChains, IsOpenListing
<1>3. CallOf(m)' /\ ContractOf(m)'
  BY <1>1 DEF CallOf, ContractOf
<1> QED BY <1>2, <1>3

(* A step on one listing need only be looked at there. *)
LEMMA LocalStep ==
    ASSUME NegInv, Typed', NEW l \in Listings,
           \A m \in Listings : m # l =>
               listing'[m] = listing[m] /\ chain'[m] = chain[m] /\ call'[m] = call[m],
           contracts \subseteq contracts',
           \A m \in Listings, b \in Bidders :
               m # l /\ <<m, b>> \in contracts' => <<m, b>> \in contracts,
           unrestored \subseteq unrestored', UNCHANGED <<crashes, peer, origin>>,
           TakenByPeer(l) => listing'[l].qty = listing[l].qty,
           \A b \in Bidders : <<l, b>> \in contracts =>
               listing'[l].qty = listing[l].qty /\ chain'[l][b].qty = chain[l][b].qty,
           IsOpenListing(l)' => IsOpenListing(l) \/ IndexAllows(l),
           RowsOf(l)', CallOf(l)', ContractOf(l)'
    PROVE  NegInv'
<1>1. \A m \in Listings : RowsOf(m) /\ CallOf(m) /\ ContractOf(m) /\ OriginOf(m)
  BY DEF NegInv
<1>2. \A m : TakenByPeer(m)' <=> TakenByPeer(m)
  BY DEF TakenByPeer
<1>3. ASSUME NEW m \in Listings PROVE RowsOf(m)' /\ CallOf(m)' /\ ContractOf(m)'
  <2>1. CASE m # l
    BY <1>1, <1>2, <2>1, Frame
  <2> QED BY <2>1
<1>4. ASSUME NEW n \in Listings PROVE OriginOf(n)'
  <2>1. /\ \A p \in Listings : TakenByPeer(p) =>
             TakenByPeer(p)' /\ peer'.qty = peer.qty /\ listing'[p].qty = listing[p].qty
        /\ \A p \in Listings, b \in Bidders : <<p, b>> \in contracts =>
             /\ <<p, b>> \in contracts' /\ listing'[p].qty = listing[p].qty
             /\ chain'[p][b].qty = chain[p][b].qty
    BY <1>2
  <2> QED BY <1>1, <2>1, OriginKept
<1>5. OneOpen'
  BY DEF OneOpen, IsOpenListing, IndexAllows, NegInv
<1> QED BY <1>3, <1>4, <1>5 DEF NegInv

-----------------------------------------------------------------------------
(* Steps on one listing *)

(* Posting, changing and withdrawing a listing. *)
LEMMA ListingStep ==
    ASSUME NegInv, Typed', NEW l \in Listings,
           (\E q \in Quantities : Create(l, q) \/ UpdateQuantity(l, q)) \/ CancelListing(l)
    PROVE  NegInv'
<1>1. Typed /\ RowsOf(l) /\ CallOf(l) /\ ContractOf(l)
  BY DEF NegInv
<1> USE DEF history
<1>2. ASSUME NEW q \in Quantities, Create(l, q) PROVE NegInv'
  <2>1. /\ listing[l].status = "none" /\ IndexAllows(l) /\ listing'[l].status = "open"
        /\ \A m \in Listings : m # l => listing'[m] = listing[m]
        /\ UNCHANGED <<chain, call, contracts, unrestored, crashes, peer, origin>>
    BY <1>1, <1>2 DEF Create, IsFresh, Unused, Typed
  <2>2. ~TakenByPeer(l)' /\ ~TakenByPeer(l) /\ \A b \in Bidders : <<l, b>> \notin contracts
    BY <1>1, <2>1 DEF RowsOf, ContractOf, TakenByPeer
  <2>3. RowsOf(l)' /\ CallOf(l)' /\ ContractOf(l)'
    BY <2>1, <2>2, PostedRow
  <2> QED BY <2>1, <2>2, <2>3, LocalStep
<1>3. ASSUME NEW q \in Quantities, UpdateQuantity(l, q) PROVE NegInv'
  <2>1. /\ IsOpenListing(l) /\ listing'[l].status = "open"
        /\ \A m \in Listings : m # l => listing'[m] = listing[m]
        /\ UNCHANGED <<chain, call, contracts, unrestored, crashes, peer, origin>>
    BY <1>1, <1>3 DEF UpdateQuantity, IsOpenListing, Typed, Listing
  <2>2. ~TakenByPeer(l)' /\ ~TakenByPeer(l) /\ \A b \in Bidders : <<l, b>> \notin contracts
    BY <1>1, <2>1 DEF RowsOf, ContractOf, TakenByPeer, IsOpenListing
  <2>3. RowsOf(l)'
    BY <1>1, <2>1, <2>2 DEF RowsOf, OpenChains, IsOpenListing
  <2>4. CallOf(l)' /\ ContractOf(l)'
    BY <1>1, <2>1, <2>2 DEF CallOf, ContractOf, IsOpenListing
  <2> QED BY <2>1, <2>2, <2>3, <2>4, LocalStep
<1>4. CASE CancelListing(l)
  <2>1. /\ IsOpenListing(l) /\ listing'[l].status = "cancelled" /\ listing'[l].qty = listing[l].qty
        /\ \A m \in Listings : m # l => listing'[m] = listing[m] /\ chain'[m] = chain[m]
        /\ chain'[l] = Cancel(l, None, Poster)
        /\ UNCHANGED <<call, contracts, unrestored, crashes, peer, origin>>
    BY <1>1, <1>4 DEF CancelListing, Typed, Listing
  <2>2. ~TakenByPeer(l)' /\ ~TakenByPeer(l) /\ \A b \in Bidders : <<l, b>> \notin contracts
    BY <1>1, <2>1 DEF RowsOf, ContractOf, TakenByPeer, IsOpenListing
  <2>3. RowsOf(l)'
    <3>1. \A b \in Bidders : b \notin OpenChains(l)'
      <4>1. ASSUME NEW b \in Bidders PROVE chain'[l][b].status \notin {"open", "countered"}
        <5>1. b # None
          BY NegotiationAssumption
        <5>2. Poster \in Names
          BY DEF Names, Parties
        <5>3. b \in OpenChains(l) => Cancel(l, None, Poster)[b].status = "cancelled"
          BY <1>1, <5>1, <5>2, CancelChains
        <5>4. b \notin OpenChains(l) => Cancel(l, None, Poster)[b] = chain[l][b]
          BY <1>1, <5>1, <5>2, CancelChains
        <5> QED BY <2>1, <5>3, <5>4 DEF OpenChains
      <4> QED BY <4>1 DEF OpenChains
    <3>2. OpenChains(l)' = {}
      BY <3>1 DEF OpenChains
    <3> QED BY <2>1, <2>2, <3>2 DEF RowsOf, IsOpenListing
  <2>4. CallOf(l)' /\ ContractOf(l)'
    BY <1>1, <2>1, <2>2 DEF CallOf, ContractOf, IsOpenListing
  <2> QED BY <2>1, <2>2, <2>3, <2>4, LocalStep DEF IsOpenListing
<1> QED BY <1>2, <1>3, <1>4

(* Writing one chain that is not accepted: a chain is opened or countered  *)
(* only while the listing is open.                                         *)
LEMMA ChainWrite ==
    ASSUME NegInv, Typed', NEW l \in Listings, NEW b \in Bidders, NEW c \in Chain,
           chain[l][b].status # "accepted", c.status # "accepted",
           listing[l].status # "none",
           c.status \in {"open", "countered"} => IsOpenListing(l),
           chain' = [chain EXCEPT ![l][b] = c],
           UNCHANGED <<listing, call, contracts, unrestored, crashes, peer, origin>>
    PROVE  NegInv'
<1>1. Typed /\ RowsOf(l) /\ CallOf(l) /\ ContractOf(l)
  BY DEF NegInv
<1>2. /\ \A m \in Listings : m # l => chain'[m] = chain[m]
      /\ chain'[l][b] = c /\ \A d \in Bidders : d # b => chain'[l][d] = chain[l][d]
  BY <1>1 DEF Typed
<1>3. <<l, b>> \notin contracts
  BY <1>1 DEF ContractOf
<1>4. TakenByPeer(l)' <=> TakenByPeer(l)
  BY DEF TakenByPeer
<1>5. RowsOf(l)'
  <2>1. OpenChains(l)' # {} => OpenChains(l) # {} \/ IsOpenListing(l)
    BY <1>2 DEF OpenChains
  <2> QED BY <1>1, <1>2, <1>4, <2>1 DEF RowsOf, IsOpenListing
<1>6. CallOf(l)'
  BY <1>1, <1>2, <1>4 DEF CallOf
<1>7. ContractOf(l)'
  BY <1>1, <1>2, <1>3, <1>4 DEF ContractOf
<1>8. \A d \in Bidders : <<l, d>> \in contracts => chain'[l][d].qty = chain[l][d].qty
  BY <1>2, <1>3
<1> QED BY <1>2, <1>5, <1>6, <1>7, <1>8, LocalStep DEF IsOpenListing

(* Bidding, countering, rejecting and withdrawing a bid. *)
LEMMA ChainStep ==
    ASSUME NegInv, Typed', NEW l \in Listings, NEW b \in Bidders,
           \/ \E q \in BidQuantities : OpenNegotiation(l, b, q)
           \/ \E q \in BidQuantities, who \in Parties : CounterNegotiation(l, b, who, q)
           \/ \E who \in Parties : RejectNegotiation(l, b, who)
           \/ CancelNegotiation(l, b)
    PROVE  NegInv'
<1>1. RowsOf(l)
  BY DEF NegInv
<1> USE NegotiationAssumption DEF history
<1>2. ASSUME NEW q \in BidQuantities, OpenNegotiation(l, b, q) PROVE NegInv'
  <2>1. PICK c : c = [status |-> "open", by |-> b, proposer |-> b, qty |-> q]
    OBVIOUS
  <2>2. c \in Chain /\ c.status = "open"
    BY <2>1 DEF Chain, ChainStatuses, Names, Parties
  <2> QED BY <1>2, <2>1, <2>2, ChainWrite DEF OpenNegotiation, IsOpenListing
<1>3. ASSUME NEW q \in BidQuantities, NEW who \in Parties, CounterNegotiation(l, b, who, q)
      PROVE  NegInv'
  <2>1. PICK c : c = [status |-> "countered", by |-> who, proposer |-> who, qty |-> q]
    OBVIOUS
  <2>2. c \in Chain /\ c.status = "countered"
    BY <2>1 DEF Chain, ChainStatuses, Names
  <2> QED BY <1>3, <2>1, <2>2, ChainWrite DEF CounterNegotiation, Live, IsTerminal,
        IsOpenListing
<1>4. ASSUME NEW st \in {"rejected", "cancelled"}, Live(l, b),
             chain' = [chain EXCEPT ![l][b] = Closed(st)],
             UNCHANGED <<listing, call, contracts, unrestored, crashes, peer, origin>>
      PROVE  NegInv'
  <2>1. Closed(st) \in Chain /\ Closed(st).status = st
    BY Blank DEF ChainStatuses
  <2>2. chain[l][b].status # "accepted" /\ listing[l].status # "none"
    BY <1>1, <1>4 DEF Live, IsTerminal, RowsOf
  <2> QED BY <1>4, <2>1, <2>2, ChainWrite
<1>5. ASSUME NEW who \in Parties, RejectNegotiation(l, b, who) PROVE NegInv'
  BY <1>4, <1>5 DEF RejectNegotiation
<1>6. CASE CancelNegotiation(l, b)
  BY <1>4, <1>6 DEF CancelNegotiation
<1> QED BY <1>2, <1>3, <1>5, <1>6

(* The first accept: nothing of the listing was accepted before. *)
LEMMA AcceptStep ==
    ASSUME NegInv, Typed', NEW l \in Listings, NEW b \in Bidders, NEW who \in Parties,
           NEW account \in BOOLEAN, AcceptNegotiation(l, b, who, account)
    PROVE  NegInv'
<1>1. Typed /\ RowsOf(l) /\ CallOf(l) /\ ContractOf(l)
  BY DEF NegInv
<1>2. /\ IsOpenListing(l) /\ listing'[l].status = "consumed" /\ listing'[l].qty = listing[l].qty
      /\ \A m \in Listings : m # l => /\ listing'[m] = listing[m] /\ chain'[m] = chain[m]
                                      /\ call'[m] = call[m]
      /\ UNCHANGED <<contracts, unrestored, crashes, peer, origin>>
  BY <1>1 DEF AcceptNegotiation, Consume, Typed, Listing
<1>3. ~TakenByPeer(l)' /\ ~TakenByPeer(l) /\ \A d \in Bidders : <<l, d>> \notin contracts
  BY <1>1, <1>2 DEF RowsOf, ContractOf, TakenByPeer, IsOpenListing
<1>4. PICK f : f = Cancel(l, b, who)
  OBVIOUS
<1>5. /\ f \in [Bidders -> Chain]
      /\ \A d \in Bidders : d \in OpenChains(l) \ {b} => f[d].status = "cancelled"
      /\ \A d \in Bidders : d \notin OpenChains(l) \ {b} => f[d] = chain[l][d]
  BY <1>1, <1>4, CancelChains DEF Names
<1>6. chain'[l] = [f EXCEPT ![b].status = "accepted", ![b].by = who]
  BY <1>1, <1>4 DEF AcceptNegotiation, Typed
<1>7. /\ chain'[l][b].status = "accepted"
      /\ \A d \in Bidders : d # b => chain'[l][d] = f[d]
  BY <1>5, <1>6 DEF Chain
<1>8. \A d \in Bidders : d # b => chain'[l][d].status \notin {"accepted", "open", "countered"}
  BY <1>1, <1>2, <1>5, <1>7 DEF RowsOf, OpenChains
<1>9. RowsOf(l)'
  <2>1. OpenChains(l)' = {}
    BY <1>7, <1>8 DEF OpenChains
  <2> QED BY <1>2, <1>3, <2>1 DEF RowsOf, IsOpenListing
<1>10. CallOf(l)'
  <2>1. PICK g : g = Prior(l, b)
    OBVIOUS
  <2>2. /\ \A d \in Bidders : g[d] \in {"none", "open", "countered"}
        /\ \A d \in Bidders \ {b} : chain[l][d].status \in {"open", "countered"}
              => g[d] = chain[l][d].status
    BY <2>1 DEF Prior, OpenChains
  <2>3. PICK h : h = [d \in Bidders |-> chain[l][d].status]
    OBVIOUS
  <2>4. call'[l] = [pc |-> IF account THEN "form" ELSE "restore", winner |-> b, prior |-> g,
                    before |-> h]
    BY <1>1, <2>1, <2>3 DEF AcceptNegotiation, Typed
  <2>5. /\ call'[l].pc \in {"form", "restore"} /\ call'[l].winner = b
        /\ call'[l].prior = g /\ call'[l].before = h
    BY <2>4
  <2>6. \A d \in Bidders \ {b} : h[d] \in {"open", "countered"} => g[d] = h[d]
    BY <2>2, <2>3
  <2>7. \A d \in Bidders : chain'[l][d].status = "accepted" <=> d = b
    BY <1>7, <1>8
  <2> QED BY <1>2, <1>3, <2>2, <2>5, <2>6, <2>7 DEF CallOf
<1>11. ContractOf(l)'
  <2>1. call'[l].pc # "none"
    BY <1>1 DEF AcceptNegotiation, Typed
  <2> QED BY <1>2, <1>3, <2>1 DEF ContractOf
<1> QED BY <1>2, <1>3, <1>9, <1>10, <1>11, LocalStep DEF IsOpenListing

(* The rest of the call, but for a remainder that is posted. *)
LEMMA CallStepLocal ==
    ASSUME NegInv, Typed', NEW l \in Listings,
           \/ Forms(l) \/ FormationFails(l) \/ LinkContract(l) \/ restoreListing(l)
           \/ RestoreFails(l) \/ markNegotiationFailed(l) \/ RecoverAcceptNegotiationSaga(l)
           \/ relistAcceptRemainder(l) /\ UNCHANGED <<listing, origin>>
    PROVE  NegInv'
<1>1. Typed /\ RowsOf(l) /\ CallOf(l) /\ ContractOf(l)
  BY DEF NegInv
<1>2. call[l].pc # "none"
  BY DEF Forms, FormationFails, LinkContract, restoreListing, RestoreFails,
        markNegotiationFailed,
         RecoverAcceptNegotiationSaga, relistAcceptRemainder
<1>3. /\ listing[l].status = "consumed" /\ ~TakenByPeer(l) /\ call[l].winner \in Bidders
      /\ \A b \in Bidders : chain[l][b].status = "accepted" <=> b = call[l].winner
  BY <1>1, <1>2 DEF CallOf
<1>4. OpenChains(l) = {}
  BY <1>1, <1>3 DEF RowsOf, IsOpenListing
<1> USE DEF rows, history
<1>5. CASE Forms(l)
  <2>1. /\ GoTo(l, "relist") /\ contracts' = contracts \cup {<<l, call[l].winner>>}
        /\ UNCHANGED <<listing, chain, unrestored, crashes, peer, origin>>
        /\ call[l].pc = "form"
    BY <1>5 DEF Forms
  <2>2. /\ call'[l].pc = "relist" /\ call'[l].winner = call[l].winner
        /\ call'[l].prior = call[l].prior /\ call'[l].before = call[l].before
        /\ \A m \in Listings : m # l => call'[m] = call[m]
    BY <1>1, <2>1, CallMoves DEF Pcs
  <2>3. ~TakenByPeer(l)'
    BY <1>3, <2>1 DEF TakenByPeer
  <2>4. \A b \in Bidders : <<l, b>> \in contracts' <=> b = call[l].winner
    BY <1>1, <1>3, <2>1 DEF CallOf
  <2>5. RowsOf(l)'
    BY <1>1, <1>3, <1>4, <2>1, <2>3 DEF RowsOf, OpenChains, IsOpenListing
  <2>6. CallOf(l)'
    BY <1>1, <1>2, <1>3, <2>1, <2>2, <2>3, <2>4 DEF CallOf
  <2>7. ContractOf(l)'
    BY <1>3, <2>1, <2>2, <2>3, <2>4 DEF ContractOf
  <2> QED BY <1>3, <2>1, <2>2, <2>5, <2>6, <2>7, LocalStep DEF IsOpenListing
<1>6. CASE FormationFails(l)
  <2>1. /\ GoTo(l, "restore") /\ call[l].pc = "form"
        /\ UNCHANGED <<listing, chain, contracts, unrestored, crashes, peer, origin>>
    BY <1>6 DEF FormationFails
  <2>2. /\ call'[l].pc = "restore" /\ call'[l].winner = call[l].winner
        /\ call'[l].prior = call[l].prior /\ call'[l].before = call[l].before
        /\ \A m \in Listings : m # l => call'[m] = call[m]
    BY <1>1, <2>1, CallMoves DEF Pcs
  <2>3. ~TakenByPeer(l)'
    BY <1>3, <2>1 DEF TakenByPeer
  <2>4. RowsOf(l)'
    BY <1>1, <1>3, <1>4, <2>1, <2>3 DEF RowsOf, OpenChains, IsOpenListing
  <2>5. CallOf(l)'
    BY <1>1, <1>2, <1>3, <2>1, <2>2, <2>3 DEF CallOf
  <2>6. ContractOf(l)'
    BY <1>1, <1>3, <2>1, <2>2, <2>3 DEF ContractOf
  <2> QED BY <1>3, <2>1, <2>2, <2>4, <2>5, <2>6, LocalStep DEF IsOpenListing
<1>7. CASE relistAcceptRemainder(l) /\ UNCHANGED <<listing, origin>>
  <2>1. /\ GoTo(l, "link") /\ call[l].pc = "relist"
        /\ UNCHANGED <<listing, chain, contracts, unrestored, crashes, peer, origin>>
    BY <1>7 DEF relistAcceptRemainder
  <2>2. /\ call'[l].pc = "link" /\ call'[l].winner = call[l].winner
        /\ call'[l].prior = call[l].prior /\ call'[l].before = call[l].before
        /\ \A m \in Listings : m # l => call'[m] = call[m]
    BY <1>1, <2>1, CallMoves DEF Pcs
  <2>3. ~TakenByPeer(l)'
    BY <1>3, <2>1 DEF TakenByPeer
  <2>4. RowsOf(l)'
    BY <1>1, <1>3, <1>4, <2>1, <2>3 DEF RowsOf, OpenChains, IsOpenListing
  <2>5. CallOf(l)'
    BY <1>1, <1>2, <1>3, <2>1, <2>2, <2>3 DEF CallOf
  <2>6. ContractOf(l)'
    BY <1>1, <1>3, <2>1, <2>2, <2>3 DEF ContractOf
  <2> QED BY <1>3, <2>1, <2>2, <2>4, <2>5, <2>6, LocalStep DEF IsOpenListing
<1>8. CASE LinkContract(l)
  <2>1. /\ Ends(l) /\ call[l].pc = "link"
        /\ UNCHANGED <<listing, chain, contracts, unrestored, crashes, peer, origin>>
    BY <1>8 DEF LinkContract
  <2>2. call'[l].pc = "none" /\ \A m \in Listings : m # l => call'[m] = call[m]
    BY <1>1, <2>1, CallMoves
  <2>3. ~TakenByPeer(l)'
    BY <1>3, <2>1 DEF TakenByPeer
  <2>4. RowsOf(l)'
    BY <1>1, <1>3, <1>4, <2>1, <2>3 DEF RowsOf, OpenChains, IsOpenListing
  <2>5. CallOf(l)'
    BY <2>2 DEF CallOf
  <2>6. \E b \in Bidders : <<l, b>> \in contracts
    BY <1>1, <2>1 DEF CallOf
  <2>7. ContractOf(l)'
    BY <1>1, <1>3, <2>1, <2>3, <2>6 DEF ContractOf
  <2> QED BY <1>3, <2>1, <2>2, <2>4, <2>5, <2>7, LocalStep DEF IsOpenListing
<1>9. CASE restoreListing(l)
  <2>1. /\ Ends(l) /\ call[l].pc = "restore" /\ IndexAllows(l)
        /\ UNCHANGED <<contracts, unrestored, crashes, peer, origin>>
    BY <1>9 DEF restoreListing
  <2>2. call'[l].pc = "none" /\ \A m \in Listings : m # l => call'[m] = call[m]
    BY <1>1, <2>1, CallMoves
  <2>3. /\ listing'[l].status = "open" /\ listing'[l].qty = listing[l].qty
        /\ \A m \in Listings : m # l => listing'[m] = listing[m] /\ chain'[m] = chain[m]
    BY <1>1, <1>9 DEF restoreListing, Typed, Listing
  <2>4. ~TakenByPeer(l)' /\ \A b \in Bidders : <<l, b>> \notin contracts
    BY <1>1, <1>3, <2>1 DEF TakenByPeer, CallOf
  <2>5. \A b \in Bidders : chain'[l][b].status # "accepted"
    <3>1. PICK f : f = Restored(l)
      OBVIOUS
    <3>2. f \in [Bidders -> Chain] /\ \A b \in Bidders : b # call[l].winner => f[b].status # "accepted"
      <4>1. ASSUME NEW b \in Bidders
            PROVE  f[b] \in Chain /\ (b # call[l].winner => f[b].status # "accepted")
        <5>1. chain[l][b] \in Chain /\ call[l].prior[b] \in ChainStatuses
              /\ call[l].prior[b] \in {"none", "open", "countered"}
          BY <1>1, <1>2 DEF Typed, Call, CallOf
        <5>2. CASE call[l].prior[b] = "none"
          BY <1>3, <3>1, <5>1, <5>2 DEF Restored
        <5>3. CASE call[l].prior[b] # "none"
          <6>1. f[b] = [chain[l][b] EXCEPT !.status = call[l].prior[b]]
            BY <3>1, <5>3 DEF Restored
          <6> QED BY <5>1, <6>1 DEF Chain
        <5> QED BY <5>2, <5>3
      <4>2. f = [b \in Bidders |-> f[b]]
        BY <3>1 DEF Restored
      <4> QED BY <4>1, <4>2
    <3>3. chain'[l] = [f EXCEPT ![call[l].winner].status = "failed"]
      BY <1>1, <1>9, <3>1 DEF restoreListing, Typed
    <3>4. chain'[l][call[l].winner].status = "failed"
      BY <1>3, <3>2, <3>3 DEF Chain
    <3> QED BY <1>3, <3>2, <3>3, <3>4
  <2>6. RowsOf(l)'
    BY <2>3, <2>4, <2>5 DEF RowsOf, IsOpenListing
  <2>7. CallOf(l)' /\ ContractOf(l)'
    BY <2>1, <2>2, <2>3, <2>4 DEF CallOf, ContractOf
  <2> QED BY <2>1, <2>2, <2>3, <2>4, <2>6, <2>7, LocalStep
<1>10. CASE RestoreFails(l)
  <2>1. /\ GoTo(l, "mark") /\ call[l].pc = "restore" /\ unrestored' = unrestored \cup {l}
        /\ UNCHANGED <<listing, chain, contracts, crashes, peer, origin>>
    BY <1>10 DEF RestoreFails
  <2>2. /\ call'[l].pc = "mark" /\ call'[l].winner = call[l].winner
        /\ call'[l].prior = call[l].prior /\ call'[l].before = call[l].before
        /\ \A m \in Listings : m # l => call'[m] = call[m]
    BY <1>1, <2>1, CallMoves DEF Pcs
  <2>3. ~TakenByPeer(l)'
    BY <1>3, <2>1 DEF TakenByPeer
  <2>4. RowsOf(l)'
    BY <1>1, <1>3, <1>4, <2>1, <2>3 DEF RowsOf, OpenChains, IsOpenListing
  <2>5. CallOf(l)'
    BY <1>1, <1>2, <1>3, <2>1, <2>2, <2>3 DEF CallOf
  <2>6. ContractOf(l)'
    BY <1>1, <1>3, <2>1, <2>2, <2>3 DEF ContractOf
  <2> QED BY <1>3, <2>1, <2>2, <2>4, <2>5, <2>6, LocalStep DEF IsOpenListing
<1>11. CASE markNegotiationFailed(l)
  <2>1. /\ Ends(l) /\ call[l].pc = "mark" /\ l \in unrestored
        /\ UNCHANGED <<listing, contracts, unrestored, crashes, peer, origin>>
    BY <1>1, <1>11 DEF markNegotiationFailed, CallOf
  <2>2. call'[l].pc = "none" /\ \A m \in Listings : m # l => call'[m] = call[m]
    BY <1>1, <2>1, CallMoves
  <2>3. ~TakenByPeer(l)' /\ \A b \in Bidders : <<l, b>> \notin contracts
    BY <1>1, <1>3, <2>1 DEF TakenByPeer, CallOf
  <2>4. /\ \A m \in Listings : m # l => chain'[m] = chain[m]
        /\ \A b \in Bidders : chain'[l][b].status \in {chain[l][b].status, "failed"}
    <3>1. chain \in [Listings -> [Bidders -> Chain]]
      BY <1>1 DEF Typed
    <3>2. CASE chain' = [chain EXCEPT ![l][call[l].winner].status = "failed"]
      BY <1>3, <3>1, <3>2 DEF Chain
    <3> QED BY <1>11, <3>2 DEF markNegotiationFailed
  <2>5. RowsOf(l)'
    <3>1. OpenChains(l)' = {}
      BY <1>4, <2>4 DEF OpenChains
    <3> QED BY <1>3, <2>1, <2>3, <3>1 DEF RowsOf, IsOpenListing
  <2>6. CallOf(l)' /\ ContractOf(l)'
    BY <2>1, <2>2, <2>3 DEF CallOf, ContractOf
  <2> QED BY <1>3, <2>1, <2>2, <2>3, <2>4, <2>5, <2>6, LocalStep DEF IsOpenListing
<1>12. CASE RecoverAcceptNegotiationSaga(l)
  <2>1. /\ Ends(l) /\ call[l].pc = "recover" /\ crashes > 0
        /\ UNCHANGED <<listing, chain, unrestored, crashes, peer, origin>>
    BY <1>1, <1>12 DEF RecoverAcceptNegotiationSaga, CallOf
  <2>2. contracts' = contracts \/ contracts' = contracts \cup {<<l, call[l].winner>>}
    BY <1>12 DEF RecoverAcceptNegotiationSaga
  <2>3. call'[l].pc = "none" /\ \A m \in Listings : m # l => call'[m] = call[m]
    BY <1>1, <2>1, CallMoves
  <2>4. ~TakenByPeer(l)' /\ \A b \in Bidders : <<l, b>> \notin contracts
    BY <1>1, <1>3, <2>1 DEF TakenByPeer, CallOf
  <2>5. RowsOf(l)'
    BY <1>1, <1>3, <1>4, <2>1, <2>4 DEF RowsOf, OpenChains, IsOpenListing
  <2>6. CallOf(l)'
    BY <2>3 DEF CallOf
  <2>7. ContractOf(l)'
    <3>1. crashes' # 0
      BY <1>1, <2>1 DEF Typed
    <3>2. \A b \in Bidders : <<l, b>> \in contracts' => b = call[l].winner
      BY <2>2, <2>4
    <3> QED BY <1>3, <2>1, <2>4, <3>1, <3>2 DEF ContractOf
  <2>8. \A m \in Listings, b \in Bidders : m # l /\ <<m, b>> \in contracts' => <<m, b>> \in contracts
    BY <2>2
  <2> QED BY <1>3, <2>1, <2>2, <2>3, <2>4, <2>5, <2>6, <2>7, <2>8, LocalStep
        DEF IsOpenListing
<1> QED BY <1>5, <1>6, <1>7, <1>8, <1>9, <1>10, <1>11, <1>12

-----------------------------------------------------------------------------
(* Steps on two listings, on the peer's accept and on every call *)

(* The unsold remainder of an accepted listing is posted as a new row. *)
LEMMA RelistStep ==
    ASSUME NegInv, Typed', NEW l \in Listings, relistAcceptRemainder(l),
           NEW m \in Listings, IsFresh(m), IndexAllows(m),
           Relisted(listing, l, m, chain[l][call[l].winner].qty)
    PROVE  NegInv'
<1> DEFINE q == chain[l][call[l].winner].qty
<1>1. /\ Typed /\ \A n \in Listings : RowsOf(n) /\ CallOf(n) /\ ContractOf(n) /\ OriginOf(n)
  BY DEF NegInv
<1>2. /\ call[l].pc = "relist" /\ GoTo(l, "link")
      /\ UNCHANGED <<chain, contracts, unrestored, crashes, peer>>
  BY DEF relistAcceptRemainder, history
<1>3. /\ call'[l].pc = "link" /\ call'[l].winner = call[l].winner
      /\ call'[l].prior = call[l].prior /\ call'[l].before = call[l].before
      /\ \A n \in Listings : n # l => call'[n] = call[n]
  BY <1>1, <1>2, CallMoves DEF Pcs
<1>4. /\ listing[l].status = "consumed" /\ call[l].winner \in Bidders
      /\ <<l, call[l].winner>> \in contracts
  <2>1. PICK b \in Bidders : <<l, b>> \in contracts
    BY <1>1, <1>2 DEF CallOf
  <2>2. chain[l][b].status = "accepted"
    BY <1>1, <2>1 DEF ContractOf
  <2>3. /\ listing[l].status = "consumed" /\ call[l].winner \in Bidders
        /\ \A d \in Bidders : chain[l][d].status = "accepted" <=> d = call[l].winner
    BY <1>1, <1>2 DEF CallOf
  <2> QED BY <2>1, <2>2, <2>3
<1>5. listing[m].status = "none" /\ m # l
  BY <1>4 DEF IsFresh, Unused
<1>6. /\ \A n \in Listings : n # m => listing'[n] = listing[n] /\ origin'[n] = origin[n]
      /\ listing'[m].status = "open" /\ origin'[m].parent = l /\ origin'[m].qty = Remainder(l, q)
  BY <1>1 DEF Relisted, Typed
<1>7. \A n : TakenByPeer(n)' <=> TakenByPeer(n)
  BY <1>2 DEF TakenByPeer
<1>8. ~TakenByPeer(m)'
  BY <1>1, <1>5, <1>7 DEF RowsOf
<1>9. RowsOf(m)' /\ CallOf(m)' /\ ContractOf(m)'
  BY <1>2, <1>3, <1>5, <1>6, <1>8, PostedRow
<1>10. RowsOf(l)' /\ CallOf(l)' /\ ContractOf(l)'
  <2>1. RowsOf(l) /\ CallOf(l) /\ ContractOf(l) /\ listing'[l] = listing[l]
    BY <1>1, <1>5, <1>6
  <2>2. RowsOf(l)'
    BY <1>2, <1>7, <2>1 DEF RowsOf, OpenChains, IsOpenListing
  <2>3. CallOf(l)'
    BY <1>2, <1>3, <1>4, <1>7, <2>1 DEF CallOf
  <2>4. ContractOf(l)'
    BY <1>2, <1>4, <1>7, <2>1 DEF ContractOf
  <2> QED BY <2>2, <2>3, <2>4
<1>11. ASSUME NEW n \in Listings, n # l, n # m PROVE RowsOf(n)' /\ CallOf(n)' /\ ContractOf(n)'
  <2>1. RowsOf(n) /\ CallOf(n) /\ ContractOf(n) /\ listing'[n] = listing[n] /\ call'[n] = call[n]
    BY <1>1, <1>3, <1>6, <1>11
  <2> QED BY <1>2, <1>7, <2>1, Frame
<1>12. /\ \A p \in Listings : TakenByPeer(p) =>
            TakenByPeer(p)' /\ peer'.qty = peer.qty /\ listing'[p].qty = listing[p].qty
       /\ \A p \in Listings, b \in Bidders : <<p, b>> \in contracts =>
            /\ <<p, b>> \in contracts' /\ listing'[p].qty = listing[p].qty
            /\ chain'[p][b].qty = chain[p][b].qty
  <2>1. /\ \A p \in Listings : TakenByPeer(p) => p # m
        /\ \A p \in Listings, b \in Bidders : <<p, b>> \in contracts => p # m
    BY <1>1, <1>5 DEF RowsOf, ContractOf
  <2> QED BY <1>2, <1>6, <1>7, <2>1
<1>13. OriginOf(m)'
  <2>1. listing[l].qty \in Nat /\ q \in Nat
    BY <1>1, <1>4 DEF Typed, Listing, Chain
  <2>2. Remainder(l, q) + q = listing'[l].qty
    BY <1>5, <1>6, <2>1 DEF Remainder
  <2> QED BY <1>2, <1>4, <1>6, <2>2 DEF OriginOf, Adds
<1>14. ASSUME NEW n \in Listings PROVE OriginOf(n)'
  <2>1. CASE n # m
    BY <1>1, <1>6, <1>12, <2>1, OriginKept
  <2> QED BY <1>13, <2>1
<1>15. OneOpen'
  BY <1>6 DEF OneOpen, IsOpenListing, IndexAllows, NegInv
<1> QED BY <1>9, <1>10, <1>11, <1>14, <1>15 DEF NegInv

(* A peer's accept moves on without taking a listing. *)
LEMMA PeerStep ==
    ASSUME NegInv, Typed',
           \/ \E l \in Listings, q \in BidQuantities : PeerGate(l, q)
           \/ PeerSettles \/ ConsumeNothingForSeller
    PROVE  NegInv'
<1>1. /\ Typed /\ \A n \in Listings : RowsOf(n) /\ CallOf(n) /\ ContractOf(n) /\ OriginOf(n)
  BY DEF NegInv
<1>2. /\ UNCHANGED <<listing, chain, call, contracts, unrestored, crashes, origin>>
      /\ peer.pc # "done" /\ peer'.pc # "done"
  BY <1>1 DEF PeerGate, PeerSettles, ConsumeNothingForSeller, rows, history, Typed
<1>3. \A n : ~TakenByPeer(n)' /\ ~TakenByPeer(n)
  BY <1>2 DEF TakenByPeer
<1>4. ASSUME NEW n \in Listings PROVE RowsOf(n)' /\ CallOf(n)' /\ ContractOf(n)' /\ OriginOf(n)'
  <2>1. RowsOf(n)' /\ CallOf(n)' /\ ContractOf(n)'
    BY <1>1, <1>2, <1>3, Frame
  <2>2. OriginOf(n)'
    BY <1>1, <1>2, <1>3, OriginKept
  <2> QED BY <2>1, <2>2
<1>5. OneOpen'
  BY <1>2 DEF OneOpen, IsOpenListing, NegInv
<1> QED BY <1>4, <1>5 DEF NegInv

(* A peer's accept takes the open listing, and may post its remainder. *)
LEMMA PeerTakes ==
    ASSUME NegInv, Typed', NEW l \in Listings, ConsumeLocalSellOfferForSeller(l)
    PROVE  NegInv'
<1>1. /\ Typed /\ \A n \in Listings : RowsOf(n) /\ CallOf(n) /\ ContractOf(n) /\ OriginOf(n)
  BY DEF NegInv
<1>2. /\ IsOpenListing(l) /\ peer.pc = "formed"
      /\ peer' = [peer EXCEPT !.pc = "done", !.on = l]
      /\ UNCHANGED <<chain, call, contracts, unrestored, crashes>>
  BY DEF ConsumeLocalSellOfferForSeller, history
<1>3. /\ \A n : ~TakenByPeer(n)
      /\ \A n : TakenByPeer(n)' <=> n = l
      /\ peer'.qty = peer.qty
  BY <1>1, <1>2 DEF TakenByPeer, Typed
<1>4. /\ call[l].pc = "none" /\ \A b \in Bidders : <<l, b>> \notin contracts
  BY <1>1, <1>2 DEF CallOf, ContractOf, IsOpenListing
<1>5. /\ Consume(l)[l].status = "consumed" /\ Consume(l)[l].qty = listing[l].qty
      /\ \A n \in Listings : n # l => Consume(l)[n] = listing[n]
      /\ Consume(l) \in [Listings -> Listing]
  BY <1>1 DEF Consume, Typed, Listing, ListingStatuses
<1>6. ASSUME listing'[l].status = "consumed"
      PROVE  RowsOf(l)' /\ CallOf(l)' /\ ContractOf(l)'
  <2>1. TakenByPeer(l)'
    BY <1>3
  <2>2. RowsOf(l)'
    BY <1>6, <2>1 DEF RowsOf, IsOpenListing
  <2>3. CallOf(l)' /\ ContractOf(l)'
    BY <1>2, <1>4, <2>1 DEF CallOf, ContractOf
  <2> QED BY <2>2, <2>3
<1>7. ASSUME NEW n \in Listings, n # l, listing'[n] = listing[n]
      PROVE  RowsOf(n)' /\ CallOf(n)' /\ ContractOf(n)'
  <2>1. TakenByPeer(n)' <=> TakenByPeer(n)
    BY <1>3, <1>7
  <2> QED BY <1>1, <1>2, <1>7, <2>1, Frame
<1>8. ASSUME NEW n \in Listings, origin'[n] = origin[n],
             \A p \in Listings, b \in Bidders : <<p, b>> \in contracts =>
                 listing'[p].qty = listing[p].qty
      PROVE  OriginOf(n)'
  BY <1>1, <1>2, <1>3, <1>8, OriginKept
<1>9. CASE listing' = Consume(l) /\ UNCHANGED origin
  <2>1. \A n \in Listings : RowsOf(n)' /\ CallOf(n)' /\ ContractOf(n)'
    BY <1>5, <1>6, <1>7, <1>9
  <2>2. \A n \in Listings : listing'[n].qty = listing[n].qty
    BY <1>5, <1>9
  <2>3. \A n \in Listings : OriginOf(n)'
    BY <1>8, <1>9, <2>2
  <2>4. OneOpen'
    BY <1>5, <1>9 DEF OneOpen, IsOpenListing, NegInv
  <2> QED BY <2>1, <2>3, <2>4 DEF NegInv
<1>10. ASSUME NEW m \in Listings, IsFresh(m), Relisted(Consume(l), l, m, peer.qty)
       PROVE  NegInv'
  <2>1. listing[m].status = "none" /\ m # l
    BY <1>2, <1>10 DEF IsFresh, Unused, IsOpenListing
  <2>2. /\ listing'[m].status = "open" /\ \A n \in Listings : n # m => listing'[n] = Consume(l)[n]
        /\ \A n \in Listings : n # m => origin'[n] = origin[n]
        /\ origin'[m].parent = l /\ origin'[m].qty = Remainder(l, peer.qty)
    BY <1>1, <1>5, <1>10 DEF Relisted, Typed
  <2>3. /\ listing'[l].status = "consumed" /\ listing'[l].qty = listing[l].qty
        /\ \A n \in Listings : n # l /\ n # m => listing'[n] = listing[n]
    BY <1>5, <2>1, <2>2
  <2>4. RowsOf(m)' /\ CallOf(m)' /\ ContractOf(m)'
    BY <1>2, <1>3, <2>1, <2>2, PostedRow
  <2>5. \A n \in Listings : RowsOf(n)' /\ CallOf(n)' /\ ContractOf(n)'
    BY <1>6, <1>7, <2>3, <2>4
  <2>6. \A p \in Listings, b \in Bidders : <<p, b>> \in contracts => listing'[p].qty = listing[p].qty
    <3>1. \A p \in Listings, b \in Bidders : <<p, b>> \in contracts => p # m
      BY <1>1, <2>1 DEF ContractOf
    <3> QED BY <2>3, <3>1
  <2>7. OriginOf(m)'
    <3>1. listing[l].qty \in Nat /\ peer.qty \in Nat
      BY <1>1 DEF Typed, Listing
    <3>2. Remainder(l, peer.qty) + peer'.qty = listing'[l].qty
      BY <1>3, <2>3, <3>1 DEF Remainder
    <3>3. TakenByPeer(l)'
      BY <1>3
    <3> QED BY <2>2, <3>2, <3>3 DEF OriginOf, Adds
  <2>8. \A n \in Listings : OriginOf(n)'
    BY <1>8, <2>2, <2>6, <2>7
  <2>9. OneOpen'
    <3>1. \A n \in Listings : listing'[n].status = "open" => n = m
      BY <1>2, <2>3 DEF IsOpenListing, NegInv, OneOpen
    <3> QED BY <3>1 DEF OneOpen, IsOpenListing
  <2> QED BY <2>5, <2>8, <2>9 DEF NegInv
<1> QED BY <1>9, <1>10 DEF ConsumeLocalSellOfferForSeller

(* A crash ends the calls; a contract being formed may still come about. *)
LEMMA CrashStep ==
    ASSUME NegInv, Typed', Crash
    PROVE  NegInv'
<1>1. /\ Typed /\ \A n \in Listings : RowsOf(n) /\ CallOf(n) /\ ContractOf(n) /\ OriginOf(n)
  BY DEF NegInv
<1>2. /\ UNCHANGED <<listing, chain, contracts, peer, origin, unrestored>>
      /\ crashes' = crashes + 1
  BY DEF Crash, rows, history
<1>3. \A n : TakenByPeer(n)' <=> TakenByPeer(n)
  BY <1>2 DEF TakenByPeer
<1>4. crashes' > 0 /\ crashes' # 0
  BY <1>1, <1>2 DEF Typed
<1>5. ASSUME NEW n \in Listings PROVE RowsOf(n)' /\ CallOf(n)' /\ ContractOf(n)' /\ OriginOf(n)'
  <2>1. RowsOf(n) /\ CallOf(n) /\ ContractOf(n) /\ OriginOf(n)
    BY <1>1
  <2>2. RowsOf(n)'
    BY <1>2, <1>3, <2>1 DEF RowsOf, OpenChains, IsOpenListing
  <2>3. ContractOf(n)'
    BY <1>2, <1>3, <1>4, <2>1 DEF ContractOf
  <2>4. OriginOf(n)'
    BY <1>2, <1>3, <2>1, OriginKept
  <2>5. CallOf(n)'
    <3>1. CASE call[n].pc \in {"form", "recover"}
      <4>1. call[n] \in Call
        BY <1>1 DEF Typed
      <4>2. call'[n] = [call[n] EXCEPT !.pc = "recover"]
        BY <3>1 DEF Crash
      <4>3. /\ call'[n].pc = "recover" /\ call'[n].winner = call[n].winner
            /\ call'[n].prior = call[n].prior /\ call'[n].before = call[n].before
        BY <4>1, <4>2 DEF Call
      <4> QED BY <1>2, <1>3, <1>4, <2>1, <3>1, <4>3 DEF CallOf
    <3>2. CASE call[n].pc \notin {"form", "recover"}
      <4>1. call'[n] = NoCall
        BY <3>2 DEF Crash
      <4> QED BY <4>1, Blank DEF CallOf
    <3> QED BY <3>1, <3>2
  <2> QED BY <2>2, <2>3, <2>4, <2>5
<1>6. OneOpen'
  BY <1>2 DEF OneOpen, IsOpenListing, NegInv
<1> QED BY <1>5, <1>6 DEF NegInv

-----------------------------------------------------------------------------
(* The invariant *)

(* The invariant holds of an empty market. *)
LEMMA InitNeg == Init => NegInv
<1> SUFFICES ASSUME Init PROVE NegInv
  OBVIOUS
<1>1. Typed
  <2>1. listing \in [Listings -> Listing] /\ \A l \in Listings : listing[l].status = "none"
    BY DEF Init, Listing, ListingStatuses
  <2>2. chain \in [Listings -> [Bidders -> Chain]] /\ call \in [Listings -> Call]
    BY Blank DEF Init
  <2>3. peer \in [pc : PeerPcs, on : Nat, qty : Nat]
    BY DEF Init, PeerPcs
  <2>4. origin \in [Listings -> [parent : Nat, qty : Nat]]
    BY DEF Init
  <2> QED BY <2>1, <2>2, <2>3, <2>4, NegotiationAssumption DEF Init, Typed
<1>2. \A l \in Listings : /\ listing[l].status = "none" /\ call[l].pc = "none"
                          /\ origin[l].parent = 0
                          /\ \A b \in Bidders : chain[l][b].status = "none"
  BY Blank DEF Init, NoChain
<1>3. (\A l : ~TakenByPeer(l)) /\ contracts = {}
  BY DEF Init, TakenByPeer
<1>4. ASSUME NEW l \in Listings PROVE RowsOf(l) /\ CallOf(l) /\ ContractOf(l) /\ OriginOf(l)
  <2>1. RowsOf(l)
    BY <1>2, <1>3 DEF RowsOf, OpenChains, IsOpenListing
  <2>2. CallOf(l) /\ ContractOf(l) /\ OriginOf(l)
    BY <1>2, <1>3 DEF CallOf, ContractOf, OriginOf
  <2> QED BY <2>1, <2>2
<1>5. OneOpen
  BY <1>2 DEF OneOpen, IsOpenListing
<1> QED BY <1>1, <1>4, <1>5 DEF NegInv

(* Every step keeps it. *)
LEMMA NegStep == NegInv /\ [Next]_vars => NegInv'
<1> SUFFICES ASSUME NegInv, [Next]_vars PROVE NegInv'
  OBVIOUS
<1>1. Typed'
  BY TypedStep
<1>2. ASSUME NEW l \in Listings, CallStep(l) PROVE NegInv'
  <2>1. CASE relistAcceptRemainder(l)
    <3>1. CASE UNCHANGED <<listing, origin>>
      BY <1>1, <2>1, <3>1, CallStepLocal
    <3>2. CASE \E m \in Listings : /\ IsFresh(m) /\ IndexAllows(m)
                                   /\ Relisted(listing, l, m, chain[l][call[l].winner].qty)
      BY <1>1, <2>1, <3>2, RelistStep
    <3> QED BY <2>1, <3>1, <3>2 DEF relistAcceptRemainder
  <2> QED BY <1>1, <1>2, <2>1, CallStepLocal DEF CallStep
<1>3. CASE UNCHANGED vars
  <2>1. \A n : TakenByPeer(n)' <=> TakenByPeer(n)
    BY <1>3 DEF vars, TakenByPeer
  <2>2. /\ UNCHANGED <<listing, chain, call, contracts, unrestored, crashes, origin, peer>>
    BY <1>3 DEF vars, rows, history
  <2>3. \A n \in Listings : RowsOf(n) /\ CallOf(n) /\ ContractOf(n) /\ OriginOf(n)
    BY DEF NegInv
  <2>4. \A n \in Listings : RowsOf(n)' /\ CallOf(n)' /\ ContractOf(n)'
    BY <2>1, <2>2, <2>3, Frame
  <2>5. \A n \in Listings : OriginOf(n)'
    BY <2>1, <2>2, <2>3, OriginKept
  <2>6. OneOpen'
    BY <2>2 DEF OneOpen, IsOpenListing, NegInv
  <2> QED BY <1>1, <2>4, <2>5, <2>6 DEF NegInv
<1>4. CASE Next
  <2>1. ASSUME NEW l \in Listings,
               (\E q \in Quantities : Create(l, q) \/ UpdateQuantity(l, q)) \/ CancelListing(l)
        PROVE  NegInv'
    BY <1>1, <2>1, ListingStep
  <2>2. ASSUME NEW l \in Listings, NEW b \in Bidders,
               \/ \E q \in BidQuantities : OpenNegotiation(l, b, q)
               \/ \E q \in BidQuantities, who \in Parties : CounterNegotiation(l, b, who, q)
               \/ \E who \in Parties : RejectNegotiation(l, b, who)
               \/ CancelNegotiation(l, b)
        PROVE  NegInv'
    BY <1>1, <2>2, ChainStep
  <2>3. ASSUME NEW l \in Listings, NEW b \in Bidders, NEW who \in Parties, NEW account \in BOOLEAN,
               AcceptNegotiation(l, b, who, account)
        PROVE  NegInv'
    BY <1>1, <2>3, AcceptStep
  <2>4. ASSUME NEW l \in Listings, ConsumeLocalSellOfferForSeller(l) PROVE NegInv'
    BY <1>1, <2>4, PeerTakes
  <2>5. CASE \/ \E l \in Listings, q \in BidQuantities : PeerGate(l, q)
             \/ PeerSettles \/ ConsumeNothingForSeller
    BY <1>1, <2>5, PeerStep
  <2>6. CASE Crash
    BY <1>1, <2>6, CrashStep
  <2> QED BY <1>2, <1>4, <2>1, <2>2, <2>3, <2>4, <2>5, <2>6 DEF Next
<1> QED BY <1>3, <1>4

(* In every reachable state. *)
LEMMA Invariant == Spec => []NegInv
<1>1. Init => NegInv
  BY InitNeg
<1>2. NegInv /\ [Next]_vars => NegInv'
  BY NegStep
<1> QED BY <1>1, <1>2, PTL DEF Spec

-----------------------------------------------------------------------------
(* Theorems *)

(* Type correctness; a listing, a re-listed one too, has shares to offer.  *)
THEOREM TypeCorrect == Spec => []NegTypeOK
<1>1. NegInv => NegTypeOK
  <2> SUFFICES ASSUME NegInv PROVE NegTypeOK
    OBVIOUS
  <2>1. Typed
    BY DEF NegInv
  <2>2. ASSUME NEW l \in Listings
        PROVE  /\ listing[l].status \in {"none", "open", "consumed", "cancelled"}
               /\ listing[l].qty \in Nat /\ (listing[l].status # "none" => listing[l].qty > 0)
               /\ call[l].pc \in {"none", "form", "relist", "link", "restore", "mark", "recover"}
               /\ \A b \in Bidders :
                   /\ chain[l][b].status \in {"none", "open", "countered", "accepted", "rejected",
                                              "cancelled", "failed"}
                   /\ chain[l][b].by \in Parties \cup {None}
    BY <2>1 DEF Typed, Listing, ListingStatuses, Call, Pcs, Chain, ChainStatuses, Names
  <2> QED BY <2>1, <2>2 DEF NegTypeOK, Typed
<1> QED BY <1>1, Invariant, PTL

(* AcceptNegotiation: the first accept wins.  A listing ends in one local  *)
(* contract at most, with the chain that was accepted, and is not open     *)
(* again; an open listing has no accepted chain.                           *)
THEOREM FirstAcceptWinsHolds == Spec => []FirstAcceptWins
<1>1. NegInv => FirstAcceptWins
  <2> SUFFICES ASSUME NegInv PROVE FirstAcceptWins
    OBVIOUS
  <2>1. Typed /\ \A l \in Listings : RowsOf(l) /\ ContractOf(l)
    BY DEF NegInv
  <2>2. ASSUME NEW d \in contracts
        PROVE  /\ chain[d[1]][d[2]].status = "accepted" /\ listing[d[1]].status = "consumed"
               /\ \A e \in contracts : e[1] = d[1] => e = d
    <3>1. PICK l \in Listings, b \in Bidders : d = <<l, b>>
      BY <2>1 DEF Typed
    <3>2. /\ listing[l].status = "consumed" /\ chain[l][b].status = "accepted"
          /\ \A c \in Bidders : <<l, c>> \in contracts => b = c
      BY <2>1, <3>1 DEF ContractOf
    <3>3. ASSUME NEW e \in contracts, e[1] = d[1] PROVE e = d
      <4>1. PICK m \in Listings, c \in Bidders : e = <<m, c>>
        BY <2>1 DEF Typed
      <4> QED BY <3>1, <3>2, <3>3, <4>1
    <3> QED BY <3>1, <3>2, <3>3
  <2> QED BY <2>1, <2>2 DEF FirstAcceptWins, RowsOf
<1> QED BY <1>1, Invariant, PTL

(* The seller advertises one listing at a time, and a chain is live only   *)
(* while its listing is open, unless a peer's accept consumed it.          *)
THEOREM OneLiveListingHolds == Spec => []OneLiveListing
<1>1. NegInv => OneLiveListing
  BY DEF NegInv, OneOpen, RowsOf, TakenByPeer, OneLiveListing
<1> QED BY <1>1, Invariant, PTL

(* A consumed listing that no call works on has its contract, unless a     *)
(* crash or a failed restore came in between or a peer took it; a remainder *)
(* and what was sold make up the listing they came from.                   *)
THEOREM ConsumedIsSoldHolds == Spec => []ConsumedIsSold
<1>1. NegInv => ConsumedIsSold
  <2> SUFFICES ASSUME NegInv PROVE ConsumedIsSold
    OBVIOUS
  <2>1. \A l \in Listings : ContractOf(l) /\ OriginOf(l)
    BY DEF NegInv
  <2>2. crashes = 0 => \A l \in Listings :
          listing[l].status = "consumed" /\ call[l].pc = "none"
              => \/ \E b \in Bidders : <<l, b>> \in contracts
                 \/ l \in unrestored \/ (peer.pc = "done" /\ peer.on = l)
    BY <2>1 DEF ContractOf, TakenByPeer
  <2>3. \A m \in Listings : LET p == origin[m].parent IN
          p # 0 => \/ /\ peer.pc = "done" /\ peer.on = p
                      /\ origin[m].qty + peer.qty = listing[p].qty
                   \/ \E b \in Bidders :
                          /\ <<p, b>> \in contracts
                          /\ origin[m].qty + chain[p][b].qty = listing[p].qty
    BY <2>1 DEF OriginOf, Adds, TakenByPeer
  <2> QED BY <2>2, <2>3 DEF ConsumedIsSold
<1> QED BY <1>1, Invariant, PTL

(* Only restoreListing opens a consumed listing again. *)
LEMMA OnlyRestoreReopens ==
    ASSUME NegInv, [Next]_vars, NEW l \in Listings,
           listing[l].status = "consumed", listing'[l].status = "open"
    PROVE  restoreListing(l)
<1>1. Typed /\ Typed'
  BY TypedStep DEF NegInv
<1>4. ASSUME UNCHANGED listing PROVE FALSE
  BY <1>4
<1>5. ASSUME NEW m \in Listings, \E q \in Quantities : Create(m, q) \/ UpdateQuantity(m, q)
      PROVE  FALSE
  BY <1>1, <1>5 DEF Create, UpdateQuantity, IsFresh, Unused, IsOpenListing, Typed
<1>6. ASSUME NEW m \in Listings, CancelListing(m) PROVE FALSE
  BY <1>1, <1>6 DEF CancelListing, IsOpenListing, Typed, Listing
<1>7. ASSUME NEW m \in Listings, NEW b, NEW who, NEW account, AcceptNegotiation(m, b, who, account)
      PROVE  FALSE
  BY <1>1, <1>7 DEF AcceptNegotiation, Consume, IsOpenListing, Typed, Listing
<1>8. ASSUME NEW m \in Listings, relistAcceptRemainder(m) PROVE FALSE
  <2>1. \/ UNCHANGED listing
        \/ \E n \in Listings : IsFresh(n) /\ Relisted(listing, m, n, chain[m][call[m].winner].qty)
    BY <1>8 DEF relistAcceptRemainder
  <2>2. ASSUME NEW n \in Listings, IsFresh(n), listing'[l] # listing[l],
               Relisted(listing, m, n, chain[m][call[m].winner].qty)
        PROVE  FALSE
    BY <1>1, <2>2 DEF Relisted, IsFresh, Unused, Typed
  <2> QED BY <2>1, <2>2
<1>9. ASSUME NEW m \in Listings, m # l, restoreListing(m) PROVE FALSE
  BY <1>1, <1>9 DEF restoreListing, Typed
<1>10. ASSUME NEW m \in Listings, ConsumeLocalSellOfferForSeller(m) PROVE FALSE
  <2>1. Consume(m) \in [Listings -> Listing] /\ Consume(m)[l].status = "consumed"
    BY <1>1 DEF Consume, Typed, Listing, ListingStatuses
  <2>2. ASSUME NEW n \in Listings, IsFresh(n), Relisted(Consume(m), m, n, peer.qty) PROVE FALSE
    BY <2>1, <2>2 DEF Relisted, IsFresh, Unused
  <2> QED BY <1>10, <2>1, <2>2 DEF ConsumeLocalSellOfferForSeller
<1>11. UNCHANGED vars => UNCHANGED listing
  BY DEF vars, rows
<1>12. ASSUME NEW m \in Listings, CallStep(m), ~restoreListing(l) PROVE FALSE
  <2>1. CASE UNCHANGED listing
    BY <1>4, <2>1
  <2> QED BY <1>8, <1>9, <1>12, <2>1 DEF CallStep, Forms, FormationFails,
        LinkContract, RestoreFails,
                 markNegotiationFailed, RecoverAcceptNegotiationSaga, rows
<1>13. ASSUME NEW m \in Listings, NEW b \in Bidders,
              \/ \E q \in BidQuantities : OpenNegotiation(m, b, q)
              \/ \E q \in BidQuantities, who \in Parties : CounterNegotiation(m, b, who, q)
              \/ \E who \in Parties : RejectNegotiation(m, b, who)
              \/ CancelNegotiation(m, b)
       PROVE  FALSE
  BY <1>4, <1>13 DEF OpenNegotiation, CounterNegotiation, RejectNegotiation,
        CancelNegotiation
<1>14. ASSUME \/ \E m \in Listings, q \in BidQuantities : PeerGate(m, q)
              \/ PeerSettles \/ ConsumeNothingForSeller \/ Crash
       PROVE  FALSE
  BY <1>4, <1>14 DEF PeerGate, PeerSettles, ConsumeNothingForSeller, Crash, rows
<1> QED BY <1>4, <1>5, <1>6, <1>7, <1>10, <1>11, <1>12, <1>13, <1>14 DEF Next

(* AcceptNegotiation: an accept that is undone leaves the chains it        *)
(* cancelled with the statuses they had before it.                         *)
THEOREM UndoneAsBeforeHolds == Spec => UndoneAsBefore
<1>1. ASSUME NegInv, [Next]_vars, NEW l \in Listings,
             listing[l].status = "consumed", listing'[l].status = "open",
             NEW b \in Bidders \ {call[l].winner}, call[l].before[b] \in {"open", "countered"}
      PROVE  chain'[l][b].status = call[l].before[b]
  <2>1. restoreListing(l)
    BY <1>1, OnlyRestoreReopens
  <2>2. Typed /\ CallOf(l)
    BY <1>1 DEF NegInv
  <2>3. /\ call[l].prior[b] = call[l].before[b] /\ call[l].winner \in Bidders
        /\ chain[l][b] \in Chain
    BY <1>1, <2>1, <2>2 DEF CallOf, restoreListing, Typed
  <2>4. PICK f : f = Restored(l)
    OBVIOUS
  <2>5. chain'[l] = [f EXCEPT ![call[l].winner].status = "failed"]
    BY <2>1, <2>2, <2>4 DEF restoreListing, Typed
  <2>6. f[b] = [chain[l][b] EXCEPT !.status = call[l].prior[b]]
    BY <1>1, <2>3, <2>4 DEF Restored
  <2>7. chain'[l][b] = f[b]
    <3>1. f = [c \in Bidders |-> f[c]]
      BY <2>4 DEF Restored
    <3> QED BY <2>3, <2>5, <3>1
  <2> QED BY <2>3, <2>6, <2>7 DEF Chain
<1>2. NegInv /\ [Next]_vars =>
        [\A l \in Listings : listing[l].status = "consumed" /\ listing'[l].status = "open" =>
           \A b \in Bidders \ {call[l].winner} : call[l].before[b] \in {"open", "countered"} =>
               chain'[l][b].status = call[l].before[b]]_vars
  BY <1>1
<1> QED BY <1>2, Invariant, PTL DEF Spec, UndoneAsBefore
=============================================================================
