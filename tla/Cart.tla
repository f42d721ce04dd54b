-------------------------------- MODULE Cart --------------------------------
(***************************************************************************)
(* The commands on one cart: Runner::dispatch_cart_command, and the part   *)
(* of execute_checkout that reads and rewrites the cart                    *)
(* (settle_cart_for_checkout), over the cart state machine of              *)
(* crates/orchestrator-core/src/state_machine.rs.                          *)
(*                                                                         *)
(* A command reads the stored snapshot, changes its own copy, and writes   *)
(* the copy back whole; the state machine's row is read and written by     *)
(* awaits of their own.  Neither write looks at what the store holds by    *)
(* then.  A copy's contents are the edits it includes, the destination it  *)
(* ships to, and what its prices and its geo verdict were worked out for.  *)
(* The stream of cart events is left out: nothing reads it back.           *)
(***************************************************************************)
EXTENDS Naturals

CONSTANTS
    Command,    \* the invocations of cart commands and checkouts
    KindOf,     \* KindOf[c]: what command c is
    Concurrent, \* whether a command may start while another is under way
    MayFail,    \* whether a command may be cut short by an error
    Nowhere,    \* no destination has been chosen
    NoState     \* no state

Kinds == {"edit", "fulfillment", "start", "cancel", "checkout"}

ASSUME CartAssumption ==
    /\ KindOf \in [Command -> Kinds]
    /\ Concurrent \in BOOLEAN
    /\ MayFail \in BOOLEAN
    /\ Nowhere \notin Command
    /\ NoState \notin {"CartCreated", "ItemsMutated", "Repriced", "Retaxed",
                       "GeoChecked", "CheckoutReady", "Cancelled"}

VARIABLES
    snapshot, \* the stored CartProjection
    state,    \* the stored CartState
    pc,       \* pc[c]: the await command c is at
    copy,     \* copy[c]: the projection c works on
    seen,     \* seen[c]: the CartState transition_cart has read, if any
    view,     \* view[c]: the projection on which c's caller decided
    given     \* projections that were returned to callers

vars == <<snapshot, state, pc, copy, seen, view, given>>

CartState == {"CartCreated", "ItemsMutated", "Repriced", "Retaxed", "GeoChecked",
              "CheckoutReady", "Cancelled"}

CartEvent == {"ItemChanged", "PricingResolved", "TaxResolved", "GeoValidated",
              "MarkCheckoutReady", "Cancel"}

Projection ==
    [version : Nat, status : {"draft", "checkout_ready", "cancelled"},
     edits : SUBSET Command,             \* edits of the lines and the codes
     dest : Command \cup {Nowhere},      \* the fulfillment selection that set it
     priced : SUBSET Command,            \* the edits the totals account for
     geoFor : Command \cup {Nowhere}]    \* the destination of the geo verdict

\* CreateCart has returned; nobody knew the cart's id before.
Init ==
    LET new == [version |-> 1, status |-> "draft", edits |-> {}, dest |-> Nowhere,
                priced |-> {}, geoFor |-> Nowhere]
    IN  /\ snapshot = new
        /\ state = "CartCreated"
        /\ pc = [c \in Command |-> "idle"]
        /\ copy = [c \in Command |-> new]
        /\ seen = [c \in Command |-> NoState]
        /\ view = [c \in Command |-> new]
        /\ given = {new}

Goto(c, label) == pc' = [pc EXCEPT ![c] = label]

-----------------------------------------------------------------------------
(* The state machine.                                                      *)

\* Mutant: a cancelled cart can be edited again.
NextCartState_Reopens(s, e) ==
    CASE e = "ItemChanged" /\ s \in CartState \ {"Repriced", "Retaxed"} -> "ItemsMutated"
      [] e = "PricingResolved" /\ s = "ItemsMutated" -> "Repriced"
      [] e = "TaxResolved" /\ s = "Repriced" -> "Retaxed"
      [] e = "GeoValidated" /\ s = "Retaxed" -> "GeoChecked"
      [] e = "MarkCheckoutReady" /\ s \in CartState \ {"CheckoutReady", "Cancelled"} ->
            "CheckoutReady"
      [] e = "Cancel" /\ s \in CartState \ {"Cancelled"} -> "Cancelled"
      [] OTHER -> NoState

\* next_cart_state; NoState where the code answers None.
NextCartState(s, e) ==
    CASE e = "ItemChanged" /\ s \in CartState \ {"Repriced", "Retaxed", "Cancelled"} ->
            "ItemsMutated"
      [] e = "PricingResolved" /\ s = "ItemsMutated" -> "Repriced"
      [] e = "TaxResolved" /\ s = "Repriced" -> "Retaxed"
      [] e = "GeoValidated" /\ s = "Retaxed" -> "GeoChecked"
      [] e = "MarkCheckoutReady" /\ s \in CartState \ {"CheckoutReady", "Cancelled"} ->
            "CheckoutReady"
      [] e = "Cancel" /\ s \in CartState \ {"Cancelled"} -> "Cancelled"
      [] OTHER -> NoState

\* transition_cart, first await: the state is read and the move looked up.
GetState(c) ==
    /\ pc[c] \in CartEvent
    /\ seen[c] = NoState
    /\ NextCartState(state, pc[c]) # NoState
    /\ seen' = [seen EXCEPT ![c] = state]
    /\ UNCHANGED <<snapshot, state, pc, copy, view, given>>

\* InvalidStateTransition.
InvalidTransition(c) ==
    /\ pc[c] \in CartEvent
    /\ seen[c] = NoState
    /\ NextCartState(state, pc[c]) = NoState
    /\ Goto(c, "done")
    /\ UNCHANGED <<snapshot, state, copy, seen, view, given>>

\* Mutant: the geo check is not made.
After_SkipsGeo(e) ==
    CASE e = "ItemChanged" -> "price"
      [] e = "PricingResolved" -> "tax"
      [] e = "TaxResolved" -> "put"
      [] e = "GeoValidated" -> "put"
      [] OTHER -> "done"

\* What follows each transition.
After(e) ==
    CASE e = "ItemChanged" -> "price"
      [] e = "PricingResolved" -> "tax"
      [] e = "TaxResolved" -> "geo"
      [] e = "GeoValidated" -> "put"
      [] OTHER -> "done"

\* Second await: the looked-up state is written, whatever is stored by now.
\* StartCheckout and CancelCart return after it.
SetState(c) ==
    /\ pc[c] \in CartEvent
    /\ seen[c] # NoState
    /\ state' = NextCartState(seen[c], pc[c])
    /\ seen' = [seen EXCEPT ![c] = NoState]
    /\ Goto(c, After(pc[c]))
    /\ given' = IF After(pc[c]) = "done" THEN given \cup {copy[c]} ELSE given
    /\ UNCHANGED <<snapshot, copy, view>>

-----------------------------------------------------------------------------
(* The commands.                                                           *)

Ended(c) == pc[c] \in {"done", "sold"}

Ready(c, kind) ==
    /\ KindOf[c] = kind
    /\ pc[c] = "idle"
    /\ Concurrent \/ \A d \in Command : pc[d] = "idle" \/ Ended(d)

\* The command is invalid, or names a cart, a line or an item that is not there.
Refuse(c) ==
    /\ pc[c] = "idle"
    /\ Goto(c, "done")
    /\ UNCHANGED <<snapshot, state, copy, seen, view, given>>

\* Mutant: the edit replaces what the cart held.
ReadForEdit_Replaces(c) ==
    /\ Ready(c, "edit")
    /\ copy' = [copy EXCEPT ![c] = [snapshot EXCEPT !.edits = {c}, !.version = @ + 1]]
    /\ Goto(c, "ItemChanged")
    /\ UNCHANGED <<snapshot, state, seen, view, given>>

\* AddItem, UpdateItemQty, RemoveItem, ApplyAdjustment.
ReadForEdit(c) ==
    /\ Ready(c, "edit")
    /\ copy' = [copy EXCEPT ![c] = [snapshot EXCEPT !.edits = @ \cup {c}, !.version = @ + 1]]
    /\ Goto(c, "ItemChanged")
    /\ UNCHANGED <<snapshot, state, seen, view, given>>

\* Mutant: the version is left alone.
ReadForFulfillment_KeepsVersion(c) ==
    /\ Ready(c, "fulfillment")
    /\ copy' = [copy EXCEPT ![c] = [snapshot EXCEPT !.dest = c]]
    /\ Goto(c, "quote")
    /\ UNCHANGED <<snapshot, state, seen, view, given>>

\* SetFulfillmentSelection; the state machine is not asked.
ReadForFulfillment(c) ==
    /\ Ready(c, "fulfillment")
    /\ copy' = [copy EXCEPT ![c] = [snapshot EXCEPT !.dest = c, !.version = @ + 1]]
    /\ Goto(c, "quote")
    /\ UNCHANGED <<snapshot, state, seen, view, given>>

\* StartCheckout: the caller names the version it was given.
ReadForStart(c) ==
    /\ Ready(c, "start")
    /\ \E v \in given :
         /\ view' = [view EXCEPT ![c] = v]
         /\ IF v.version = snapshot.version
            THEN /\ copy' = [copy EXCEPT ![c] = [snapshot EXCEPT !.status = "checkout_ready",
                                                                 !.version = @ + 1]]
                 /\ Goto(c, "put")
            ELSE /\ Goto(c, "done")
                 /\ UNCHANGED copy
    /\ UNCHANGED <<snapshot, state, seen, given>>

ReadForCancel(c) ==
    /\ Ready(c, "cancel")
    /\ copy' = [copy EXCEPT ![c] = [snapshot EXCEPT !.status = "cancelled", !.version = @ + 1]]
    /\ Goto(c, "put")
    /\ UNCHANGED <<snapshot, state, seen, view, given>>

\* settle_cart_for_checkout: neither the status nor the state is looked at.
ReadForCheckout(c) ==
    /\ Ready(c, "checkout")
    /\ \E v \in given :
         /\ view' = [view EXCEPT ![c] = v]
         /\ IF v.version = snapshot.version
            THEN /\ copy' = [copy EXCEPT ![c] = snapshot]
                 /\ Goto(c, "reprice")
            ELSE /\ Goto(c, "done")
                 /\ UNCHANGED copy
    /\ UNCHANGED <<snapshot, state, seen, given>>

\* Mutant: an edit keeps the totals it found.
Resolve_KeepsTotals(c) ==
    /\ \/ /\ pc[c] = "price"
          /\ Goto(c, "PricingResolved")
          /\ UNCHANGED copy
       \/ /\ pc[c] = "tax"
          /\ Goto(c, "TaxResolved")
          /\ UNCHANGED copy
       \/ /\ pc[c] = "geo"
          /\ copy' = [copy EXCEPT ![c].geoFor = copy[c].dest]
          /\ Goto(c, "GeoValidated")
       \/ /\ pc[c] = "quote"
          /\ copy' = [copy EXCEPT ![c].geoFor = copy[c].dest]
          /\ Goto(c, "put")
       \/ /\ pc[c] = "reprice"
          /\ copy' = [copy EXCEPT ![c].priced = copy[c].edits, ![c].geoFor = copy[c].dest]
          /\ Goto(c, "put")
    /\ UNCHANGED <<snapshot, state, seen, view, given>>

\* The providers answer: prices; tax and discounts; the geo verdict; a quote,
\* discounts and the verdict; or, at checkout, all of them.
Resolve(c) ==
    /\ \/ /\ pc[c] = "price"
          /\ copy' = [copy EXCEPT ![c].priced = copy[c].edits]
          /\ Goto(c, "PricingResolved")
       \/ /\ pc[c] = "tax"
          /\ Goto(c, "TaxResolved")
          /\ UNCHANGED copy
       \/ /\ pc[c] = "geo"
          /\ copy' = [copy EXCEPT ![c].geoFor = copy[c].dest]
          /\ Goto(c, "GeoValidated")
       \/ /\ pc[c] = "quote"
          /\ copy' = [copy EXCEPT ![c].geoFor = copy[c].dest]
          /\ Goto(c, "put")
       \/ /\ pc[c] = "reprice"
          /\ copy' = [copy EXCEPT ![c].priced = copy[c].edits, ![c].geoFor = copy[c].dest]
          /\ Goto(c, "put")
    /\ UNCHANGED <<snapshot, state, seen, view, given>>

\* put_cart_snapshot.  Edits and fulfillment selections then return; a start or
\* a cancellation only now asks the state machine; a checkout is refused if the
\* destination is blocked or the amount is not the total, else it goes on to sell.
PutSnapshot(c) ==
    /\ pc[c] = "put"
    /\ snapshot' = copy[c]
    /\ \/ /\ KindOf[c] \in {"edit", "fulfillment"}
          /\ Goto(c, "done")
          /\ given' = given \cup {copy[c]}
       \/ KindOf[c] = "start" /\ Goto(c, "MarkCheckoutReady") /\ UNCHANGED given
       \/ KindOf[c] = "cancel" /\ Goto(c, "Cancel") /\ UNCHANGED given
       \/ /\ KindOf[c] = "checkout"
          /\ Goto(c, "done") \/ Goto(c, "sold")
          /\ UNCHANGED given
    /\ UNCHANGED <<state, copy, seen, view>>

\* GetCart.
GetCart ==
    /\ given' = given \cup {snapshot}
    /\ UNCHANGED <<snapshot, state, pc, copy, seen, view>>

\* A provider or a store answers with an error and the `?` leaves, or the
\* handler is dropped at an await.
Abort(c) ==
    /\ MayFail
    /\ pc[c] # "idle" /\ ~Ended(c)
    /\ Goto(c, "done")
    /\ seen' = [seen EXCEPT ![c] = NoState]
    /\ UNCHANGED <<snapshot, state, copy, view, given>>

-----------------------------------------------------------------------------

Begin(c) ==
    \/ Refuse(c) \/ ReadForEdit(c) \/ ReadForFulfillment(c) \/ ReadForStart(c)
    \/ ReadForCancel(c) \/ ReadForCheckout(c)

Step(c) ==
    GetState(c) \/ InvalidTransition(c) \/ SetState(c) \/ Resolve(c) \/ PutSnapshot(c)

Next ==
    \/ GetCart
    \/ \E c \in Command : Begin(c) \/ Step(c) \/ Abort(c)

Spec == Init /\ [][Next]_vars

\* A handler that has started is polled until it ends.
FairSpec == Spec /\ \A c \in Command : WF_vars(Step(c))

-----------------------------------------------------------------------------
(* Properties.                                                             *)

\* Types; the state machine's row is never written with a state that
\* next_cart_state does not yield.
TypeOK ==
    /\ snapshot \in Projection
    /\ state \in CartState
    /\ pc \in [Command -> CartEvent \cup {"idle", "price", "tax", "geo", "quote", "reprice",
                                          "put", "done", "sold"}]
    /\ copy \in [Command -> Projection]
    /\ seen \in [Command -> CartState \cup {NoState}]
    /\ view \in [Command -> Projection]
    /\ given \subseteq Projection

\* The totals of a projection account for all of its edits and its geo verdict
\* is about its own destination.
Whole(p) == p.priced = p.edits /\ p.geoFor = p.dest

\* Whatever is stored, returned or sold is whole, however commands interleave
\* and wherever they fail: no reader ever sees lines without their prices.
CartIsWhole ==
    /\ Whole(snapshot)
    /\ \A p \in given : Whole(p)
    /\ \A c \in Command : pc[c] = "sold" => Whole(copy[c])

\* A checkout with a stale cart_version fails: one that gets past the version
\* check sells the contents its caller had been shown under that version.
StaleVersionIsRefused ==
    \A c \in Command : pc[c] = "sold" =>
        copy[c].edits = view[c].edits /\ copy[c].dest = view[c].dest

\* No edit that its caller was told had succeeded drops out of the cart again.
EditIsKept ==
    \A p \in given : p.edits \subseteq snapshot.edits

\* Cancellation is final for the state machine, and no edit gets into the
\* snapshot of a cart that is cancelled there.
CancelledIsClosed ==
    [][state = "Cancelled" => state' = "Cancelled" /\ snapshot'.edits = snapshot.edits]_vars

\* A cart does not stay in the states in which no edit is accepted.
EditsResume ==
    state \in {"Repriced", "Retaxed"} ~> state \notin {"Repriced", "Retaxed"}
=============================================================================
