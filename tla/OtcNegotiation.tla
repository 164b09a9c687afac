--------------------------- MODULE OtcNegotiation ---------------------------
(***************************************************************************)
(* stock-service: the OTC option marketplace of one client seller and one  *)
(* ticker.  A listing collects one chain of bids per bidder; the first     *)
(* accept consumes the listing and cancels the other chains in one         *)
(* transaction, and only then forms the contract (OtcContract), which may  *)
(* fail: the accept is then undone.  A peer bank's accept of the same      *)
(* listing checks it, forms its contract (PeerOption), then consumes it.   *)
(*                                                                         *)
(* Every handler is one transaction under row locks, hence one action.     *)
(* Terms are reduced to the quantity.                                      *)
(***************************************************************************)
EXTENDS Integers, FiniteSets

CONSTANTS
    Bidders,
    Poster,         \* the seller, owner of every listing
    None,
    Quantities,     \* quantities a listing may have
    BidQuantities,  \* quantities a bid may have
    MaxListings,    \* bound on listing rows
    MaxBids,        \* bound on chains
    MaxTurns,       \* bound on counter-offers
    MaxDbFails,     \* bound on transactions after the accept that fail
    MaxCrashes

ASSUME NegotiationAssumption ==
    /\ Quantities \subseteq Nat \ {0} /\ BidQuantities \subseteq Nat \ {0}
    /\ Poster \notin Bidders /\ None \notin Bidders
    /\ {MaxListings, MaxBids, MaxTurns, MaxDbFails, MaxCrashes} \subseteq Nat

Listings == 1..MaxListings
Parties == Bidders \cup {Poster}

VARIABLES
    listing,        \* otc_offers, by id
    chain,          \* otc_negotiations, by listing and bidder
    turns,          \* counter-offers made
    call,           \* the AcceptNegotiation call that consumed a listing
    contracts,      \* the local contracts formed: listing and bidder
    linked,         \* those whose minted_contract_id was saved
    peer,           \* a peer bank's accept
    origin,         \* history: what a re-listed row was cut from
    agreed,         \* history: chains whose current terms the other party accepted
    unrestored,     \* history: listings an accept failed to give back
    dbFails, crashes

rows == <<listing, chain, turns>>
history == <<agreed, unrestored>>
vars == <<rows, call, contracts, linked, peer, origin, history, dbFails, crashes>>

NoChain == [status |-> "none", by |-> None, proposer |-> None, qty |-> 0]
NoCall == [pc |-> "none", winner |-> None, prior |-> [b \in Bidders |-> "none"],
           before |-> [b \in Bidders |-> "none"]]  \* history: the statuses it met

Init ==
    /\ listing = [l \in Listings |-> [status |-> "none", qty |-> 0]]
    /\ chain = [l \in Listings |-> [b \in Bidders |-> NoChain]]
    /\ turns = 0
    /\ call = [l \in Listings |-> NoCall]
    /\ contracts = {} /\ linked = {}
    /\ peer = [pc |-> "idle", on |-> 0, qty |-> 0]
    /\ origin = [l \in Listings |-> [parent |-> 0, qty |-> 0]]
    /\ agreed = {} /\ unrestored = {} /\ dbFails = 0 /\ crashes = 0

-----------------------------------------------------------------------------
(* The rows *)

IsOpenListing(l) == listing[l].status = "open"

(* "failed" is missing from the switch, so a failed chain may go on. *)
IsTerminal(c) == c.status \in {"accepted", "rejected", "cancelled"}

OpenChains(l) == {b \in Bidders : chain[l][b].status \in {"open", "countered"}}

Unused == {l \in Listings : listing[l].status = "none"}
IsFresh(l) == l \in Unused /\ \A m \in Unused : l <= m

(* Fault: the unique index was never built. *)
IndexAllowsAny(l) == TRUE

(* The partial unique index: one open row per seller, ticker and direction. *)
IndexAllows(l) == \A m \in Listings \ {l} : ~IsOpenListing(m)

(* Every open chain of l but keep's is cancelled in the name of who. *)
Cancel(l, keep, who) ==
    [b \in Bidders |-> IF b \in OpenChains(l) \ {keep}
                       THEN [chain[l][b] EXCEPT !.status = "cancelled", !.by = who]
                       ELSE chain[l][b]]

-----------------------------------------------------------------------------
(* Listings *)

Create(l, q) ==
    /\ IsFresh(l) /\ IndexAllows(l)
    /\ listing' = [listing EXCEPT ![l] = [status |-> "open", qty |-> q]]
    /\ UNCHANGED <<chain, turns, call, contracts, linked, peer, origin, history, dbFails, crashes>>

UpdateQuantity(l, q) ==
    /\ IsOpenListing(l) /\ q # listing[l].qty
    /\ \A b \in Bidders : chain[l][b].status = "accepted" => chain[l][b].qty <= q
    /\ listing' = [listing EXCEPT ![l].qty = q]
    /\ UNCHANGED <<chain, turns, call, contracts, linked, peer, origin, history, dbFails, crashes>>

CancelListing(l) ==
    /\ IsOpenListing(l)
    /\ listing' = [listing EXCEPT ![l].status = "cancelled"]
    /\ chain' = [chain EXCEPT ![l] = Cancel(l, None, Poster)]
    /\ UNCHANGED <<turns, call, contracts, linked, peer, origin, history, dbFails, crashes>>

-----------------------------------------------------------------------------
(* Chains *)

Bids == {d \in Listings \X Bidders : chain[d[1]][d[2]].status # "none"}

OpenNegotiation(l, b, q) ==
    /\ IsOpenListing(l) /\ chain[l][b].status = "none" /\ Cardinality(Bids) < MaxBids
    /\ chain' = [chain EXCEPT ![l][b] = [status |-> "open", by |-> b, proposer |-> b,
                                         qty |-> q]]
    /\ UNCHANGED <<listing, turns, call, contracts, linked, peer, origin, history, dbFails, crashes>>

Live(l, b) == chain[l][b].status # "none" /\ ~IsTerminal(chain[l][b])

(* Either party may counter, the one that proposed the current terms too. *)
CounterNegotiation(l, b, who, q) ==
    /\ Live(l, b) /\ IsOpenListing(l) /\ who \in {b, Poster}
    /\ turns < MaxTurns /\ turns' = turns + 1
    /\ chain' = [chain EXCEPT ![l][b] = [status |-> "countered", by |-> who, proposer |-> who,
                                         qty |-> q]]
    /\ agreed' = agreed \ {<<l, b>>}
    /\ UNCHANGED <<listing, call, contracts, linked, peer, origin, unrestored,
                   dbFails, crashes>>

(* Nothing reads the terms of a chain that a party closed. *)
Closed(status) == [NoChain EXCEPT !.status = status]

RejectNegotiation(l, b, who) ==
    /\ Live(l, b) /\ who \in {b, Poster}
    /\ chain' = [chain EXCEPT ![l][b] = Closed("rejected")]
    /\ UNCHANGED <<listing, turns, call, contracts, linked, peer, origin, history, dbFails, crashes>>

CancelNegotiation(l, b) ==
    /\ Live(l, b)
    /\ chain' = [chain EXCEPT ![l][b] = Closed("cancelled")]
    /\ UNCHANGED <<listing, turns, call, contracts, linked, peer, origin, history, dbFails, crashes>>

-----------------------------------------------------------------------------
(* AcceptNegotiation: the state transaction ... *)

(* Fault: a sibling countered by the poster is captured as open. *)
PriorAsOpen(l, winner) ==
    [b \in Bidders |-> IF b \in OpenChains(l) \ {winner} THEN "open" ELSE "none"]

(* siblingPriorStatus: what the cascade cancelled, and its status. *)
Prior(l, winner) ==
    [b \in Bidders |-> IF b \in OpenChains(l) \ {winner} THEN chain[l][b].status ELSE "none"]

(* Fault: the listing is left open for the rest of its quantity. *)
ConsumeNothing(l) == listing

Consume(l) == [listing EXCEPT ![l].status = "consumed"]

AcceptNegotiation(l, b, who, account) ==
    /\ Live(l, b) /\ IsOpenListing(l)
    /\ who \in {b, Poster} /\ who # chain[l][b].by
    /\ chain' = [chain EXCEPT ![l] =
            [Cancel(l, b, who) EXCEPT ![b].status = "accepted", ![b].by = who]]
    /\ listing' = Consume(l)
    /\ call' = [call EXCEPT ![l] = [pc |-> IF account THEN "form" ELSE "restore",
                                    winner |-> b, prior |-> Prior(l, b),
                                    before |-> [c \in Bidders |-> chain[l][c].status]]]
    /\ agreed' = IF who # chain[l][b].proposer THEN agreed \cup {<<l, b>>} ELSE agreed
    /\ UNCHANGED <<turns, contracts, linked, peer, origin, unrestored, dbFails, crashes>>

GoTo(l, pc) == call' = [call EXCEPT ![l].pc = pc]

Ends(l) == call' = [call EXCEPT ![l] = NoCall]

(* ... the contract's own saga (OtcContract), which forms it or leaves nothing. *)
Forms(l) ==
    /\ call[l].pc = "form"
    /\ contracts' = contracts \cup {<<l, call[l].winner>>}
    /\ GoTo(l, "relist")
    /\ UNCHANGED <<rows, linked, peer, origin, history, dbFails, crashes>>

(* Fault: the accept answers the error and leaves the rest as it is. *)
FormationFailsUnrestored(l) ==
    /\ call[l].pc = "form"
    /\ Ends(l)
    /\ UNCHANGED <<rows, contracts, linked, peer, origin, history, dbFails, crashes>>

FormationFails(l) ==
    /\ call[l].pc = "form"
    /\ GoTo(l, "restore")
    /\ UNCHANGED <<rows, contracts, linked, peer, origin, history, dbFails, crashes>>

DbFails == dbFails < MaxDbFails /\ dbFails' = dbFails + 1

Remainder(l, q) == listing[l].qty - q

HasRemainder(l, q) == Remainder(l, q) > 0

(* The rows after the unsold remainder of l is posted as row m. *)
Relisted(table, l, m, q) ==
    /\ listing' = [table EXCEPT ![m] = [status |-> "open", qty |-> Remainder(l, q)]]
    /\ origin' = [origin EXCEPT ![m] = [parent |-> l, qty |-> Remainder(l, q)]]

(* Best effort: it is refused while the seller has another open listing.   *)
(* Bound: with no row left nothing is re-listed.                           *)
relistAcceptRemainder(l) ==
    LET q == chain[l][call[l].winner].qty
        Posts(m) == HasRemainder(l, q) /\ IsFresh(m) /\ IndexAllows(m)
    IN  /\ call[l].pc = "relist" /\ GoTo(l, "link")
        /\ \/ \E m \in Listings : Posts(m) /\ Relisted(listing, l, m, q) /\ UNCHANGED dbFails
           \/ /\ ((\A m \in Listings : ~Posts(m)) /\ UNCHANGED dbFails) \/ DbFails
              /\ UNCHANGED <<listing, turns, origin>>
        /\ UNCHANGED <<chain, turns, contracts, linked, peer, history, crashes>>

LinkContract(l) ==
    /\ call[l].pc = "link" /\ Ends(l)
    /\ \/ linked' = linked \cup {<<l, call[l].winner>>} /\ UNCHANGED dbFails
       \/ DbFails /\ UNCHANGED linked
    /\ UNCHANGED <<rows, contracts, peer, origin, history, crashes>>

Restored(l) ==
    [b \in Bidders |-> IF call[l].prior[b] = "none" THEN chain[l][b]
                       ELSE [chain[l][b] EXCEPT !.status = call[l].prior[b]]]

(* One transaction; it leaves last_action_by as the accept wrote it. *)
restoreListing(l) ==
    /\ call[l].pc = "restore" /\ IndexAllows(l)
    /\ listing' = [listing EXCEPT ![l].status = "open"]
    /\ chain' = [chain EXCEPT ![l] = [Restored(l) EXCEPT ![call[l].winner].status = "failed"]]
    /\ Ends(l)
    /\ UNCHANGED <<turns, contracts, linked, peer, origin, history, dbFails, crashes>>

(* The index refuses it when the seller has posted again, or the write fails. *)
RestoreFails(l) ==
    /\ call[l].pc = "restore"
    /\ (~IndexAllows(l) /\ UNCHANGED dbFails) \/ DbFails
    /\ unrestored' = unrestored \cup {l} /\ GoTo(l, "mark")
    /\ UNCHANGED <<rows, contracts, linked, peer, origin, agreed, crashes>>

(* Fault: the fallback's own failure is not survived either. *)
markNegotiationFailedNever(l) ==
    /\ call[l].pc = "mark" /\ Ends(l)
    /\ UNCHANGED <<rows, contracts, linked, peer, origin, history, dbFails, crashes>>

markNegotiationFailed(l) ==
    /\ call[l].pc = "mark" /\ Ends(l)
    /\ \/ /\ chain' = [chain EXCEPT ![l][call[l].winner].status = "failed"]
          /\ UNCHANGED dbFails
       \/ DbFails /\ UNCHANGED chain
    /\ UNCHANGED <<listing, turns, contracts, linked, peer, origin, history, crashes>>

-----------------------------------------------------------------------------
(* A peer bank's accept, on the seller's side *)

(* LocalSellOfferOpenForSeller, before the contract forms *)
PeerGate(l, q) ==
    /\ peer.pc = "idle" /\ IsOpenListing(l)
    /\ peer' = [pc |-> "forming", on |-> l, qty |-> q]
    /\ UNCHANGED <<rows, call, contracts, linked, origin, history, dbFails, crashes>>

PeerSettles ==
    /\ peer.pc = "forming" /\ \E pc \in {"formed", "failed"} : peer' = [peer EXCEPT !.pc = pc]
    /\ UNCHANGED <<rows, call, contracts, linked, origin, history, dbFails, crashes>>

(* It takes whatever listing is open by then, re-lists its remainder in    *)
(* the same transaction and leaves the local chains alone.                 *)
ConsumeLocalSellOfferForSeller(l) ==
    /\ peer.pc = "formed" /\ IsOpenListing(l)
    /\ \/ /\ HasRemainder(l, peer.qty)
          /\ \E m \in Listings : IsFresh(m) /\ Relisted(Consume(l), l, m, peer.qty)
       \/ /\ ~HasRemainder(l, peer.qty) \/ Unused = {}
          /\ listing' = Consume(l) /\ UNCHANGED origin
    /\ peer' = [peer EXCEPT !.pc = "done", !.on = l]
    /\ UNCHANGED <<chain, turns, call, contracts, linked, history, dbFails, crashes>>

(* Nothing is open any more, or the write fails: it is only logged. *)
ConsumeNothingForSeller ==
    /\ peer.pc = "formed"
    /\ ((\A l \in Listings : ~IsOpenListing(l)) /\ UNCHANGED dbFails) \/ DbFails
    /\ peer' = [peer EXCEPT !.pc = "missed"]
    /\ UNCHANGED <<rows, call, contracts, linked, origin, history, crashes>>

-----------------------------------------------------------------------------
(* A crash loses every call; a contract's saga may be resumed or undone    *)
(* afterwards, without the rest of the accept.                             *)

Crash ==
    /\ crashes < MaxCrashes /\ crashes' = crashes + 1
    /\ call' = [l \in Listings |->
                  IF call[l].pc \in {"form", "recover"} THEN [call[l] EXCEPT !.pc = "recover"]
                  ELSE NoCall]
    /\ UNCHANGED <<rows, contracts, linked, peer, origin, history, dbFails>>

RecoverAcceptNegotiationSaga(l) ==
    /\ call[l].pc = "recover" /\ Ends(l)
    /\ \E formed \in {{}, {<<l, call[l].winner>>}} : contracts' = contracts \cup formed
    /\ UNCHANGED <<rows, linked, peer, origin, history, dbFails, crashes>>

CallStep(l) ==
    \/ Forms(l) \/ FormationFails(l) \/ relistAcceptRemainder(l) \/ LinkContract(l)
    \/ restoreListing(l) \/ RestoreFails(l) \/ markNegotiationFailed(l)
    \/ RecoverAcceptNegotiationSaga(l)

Next ==
    \/ \E l \in Listings :
        \/ \E q \in Quantities :
            Create(l, q) \/ UpdateQuantity(l, q)
        \/ \E q \in BidQuantities :
            \/ PeerGate(l, q)
            \/ \E b \in Bidders : OpenNegotiation(l, b, q)
            \/ \E b \in Bidders, who \in Parties : CounterNegotiation(l, b, who, q)
        \/ CancelListing(l) \/ CallStep(l) \/ ConsumeLocalSellOfferForSeller(l)
        \/ \E b \in Bidders :
            \/ CancelNegotiation(l, b)
            \/ \E who \in Parties :
                \/ RejectNegotiation(l, b, who)
                \/ \E account \in BOOLEAN : AcceptNegotiation(l, b, who, account)
    \/ PeerSettles \/ ConsumeNothingForSeller \/ Crash

Spec == Init /\ [][Next]_vars

(* A call that has started goes on until it returns. *)
FairSpec == Spec /\ \A l \in Listings : WF_vars(CallStep(l))

-----------------------------------------------------------------------------
(* Properties *)

(* Type correctness; a listing, a re-listed one too, has shares to offer. *)
NegTypeOK ==
    /\ \A l \in Listings :
        /\ listing[l].status \in {"none", "open", "consumed", "cancelled"}
        /\ listing[l].qty \in Nat /\ (listing[l].status # "none" => listing[l].qty > 0)
        /\ call[l].pc \in {"none", "form", "relist", "link", "restore", "mark", "recover"}
        /\ \A b \in Bidders :
            /\ chain[l][b].status \in {"none", "open", "countered", "accepted", "rejected",
                                       "cancelled", "failed"}
            /\ chain[l][b].by \in Parties \cup {None}
    /\ turns \in 0..MaxTurns /\ linked \subseteq contracts
    /\ dbFails \in 0..MaxDbFails /\ crashes \in 0..MaxCrashes

(* First accept wins: a listing ends in one local contract at most, with   *)
(* the chain that was accepted, and is not open again; an open listing has *)
(* no accepted chain (OutstandingCommittedQuantityTx relies on it), also   *)
(* after an accept that was undone.                                        *)
FirstAcceptWins ==
    /\ \A d \in contracts :
          /\ chain[d[1]][d[2]].status = "accepted"
          /\ listing[d[1]].status = "consumed"
          /\ \A e \in contracts : e[1] = d[1] => e = d
    /\ \A l \in Listings : IsOpenListing(l) =>
          \A b \in Bidders : chain[l][b].status # "accepted"

(* The seller advertises one listing at a time, whichever of posting,      *)
(* re-listing, a peer's accept or an undone accept opened it, and no       *)
(* bidder waits on another: a chain is live only while its listing is      *)
(* open, unless a peer's accept consumed it.                               *)
OneLiveListing ==
    \A l \in Listings :
        /\ \A m \in Listings : IsOpenListing(l) /\ IsOpenListing(m) => l = m
        /\ OpenChains(l) # {} => IsOpenListing(l) \/ (peer.pc = "done" /\ peer.on = l)

(* The seller does not lose a listing for a deal that did not happen: once *)
(* no call runs, a consumed listing has its contract, unless a crash or a  *)
(* failed restore came in between or a peer took it.  A re-listed remainder *)
(* and what was sold make up the listing they came from.                   *)
ConsumedIsSold ==
    /\ crashes = 0 => \A l \in Listings :
          listing[l].status = "consumed" /\ call[l].pc = "none"
              => \/ \E b \in Bidders : <<l, b>> \in contracts
                 \/ l \in unrestored \/ (peer.pc = "done" /\ peer.on = l)
    /\ \A m \in Listings : LET p == origin[m].parent IN
          p # 0 => \/ /\ peer.pc = "done" /\ peer.on = p
                      /\ origin[m].qty + peer.qty = listing[p].qty
                   \/ \E b \in Bidders :
                          /\ <<p, b>> \in contracts
                          /\ origin[m].qty + chain[p][b].qty = listing[p].qty

(* An accept that is undone leaves the chains it cancelled with the        *)
(* statuses they had before it.                                            *)
UndoneAsBefore ==
    [][\A l \in Listings : listing[l].status = "consumed" /\ listing'[l].status = "open" =>
         \A b \in Bidders \ {call[l].winner} :
             call[l].before[b] \in {"open", "countered"} => chain'[l][b].status = call[l].before[b]]_vars

(* Every accept is settled: its chain has its contract or is given up,     *)
(* unless a crash or a failing write cuts the call short.                  *)
AcceptEnds ==
    \A l \in Listings, b \in Bidders :
        chain[l][b].status = "accepted" ~>
            <<l, b>> \in contracts \/ chain[l][b].status = "failed"
              \/ crashes > 0 \/ dbFails > 0

(* "Caller must be the opposite party to whoever proposed the current      *)
(* terms": nobody forms a contract by accepting his own bid.               *)
NoSelfAccept ==
    \A l \in Listings, b \in Bidders : chain[l][b].status = "accepted" => <<l, b>> \in agreed
=============================================================================
