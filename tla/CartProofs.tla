----------------------------- MODULE CartProofs -----------------------------
(***************************************************************************)
(* Proofs about Cart, for any number of commands of every kind, concurrent *)
(* or not, with failures or without.                                       *)
(***************************************************************************)
EXTENDS Cart, TLAPS

\* Where next_cart_state answers, it answers with a state.
LEMMA NextCartStateType ==
  ASSUME NEW s, NEW e
  PROVE  NextCartState(s, e) \in CartState \cup {NoState}
BY DEF NextCartState, CartState

\* What the commands make of a projection is a projection.
LEMMA ChangedProjection ==
  ASSUME NEW p \in Projection, NEW c \in Command
  PROVE  /\ [p EXCEPT !.edits = @ \cup {c}, !.version = @ + 1] \in Projection
         /\ [p EXCEPT !.dest = c, !.version = @ + 1] \in Projection
         /\ [p EXCEPT !.status = "checkout_ready", !.version = @ + 1] \in Projection
         /\ [p EXCEPT !.status = "cancelled", !.version = @ + 1] \in Projection
<1> DEFINE n == p.version + 1
           d == p.edits \cup {c}
<1>1. n \in Nat
  BY DEF Projection
<1>2. d \in SUBSET Command
  BY DEF Projection
<1> HIDE DEF n, d
<1>3. [p EXCEPT !.edits = d, !.version = n] \in Projection
  BY <1>1, <1>2 DEF Projection
<1>4. [p EXCEPT !.dest = c, !.version = n] \in Projection
  BY <1>1 DEF Projection
<1>5. [p EXCEPT !.status = "checkout_ready", !.version = n] \in Projection
  BY <1>1 DEF Projection
<1>6. [p EXCEPT !.status = "cancelled", !.version = n] \in Projection
  BY <1>1 DEF Projection
<1>7. QED
  BY <1>3, <1>4, <1>5, <1>6 DEF n, d

\* A state that was read is one the state machine moves on from.
Moves ==
    \A c \in Command :
        /\ pc[c] \in CartEvent /\ seen[c] # NoState => NextCartState(seen[c], pc[c]) # NoState
        /\ pc[c] \notin CartEvent => seen[c] = NoState

\* Types, and what makes them inductive.
LEMMA MovesAreValid == Spec => [](TypeOK /\ Moves)
<1> USE CartAssumption
<1> DEFINE Inv == TypeOK /\ Moves
<1>1. Init => Inv
  BY DEF Init, Moves, TypeOK, Projection, CartState, CartEvent
<1>2. Inv /\ [Next]_vars => Inv'
  <2> SUFFICES ASSUME Inv, [Next]_vars PROVE Inv'
    OBVIOUS
  <2> USE DEF TypeOK, Moves, Goto
  <2>1. CASE GetCart
    BY <2>1 DEF GetCart
  <2>2. ASSUME NEW c \in Command, Refuse(c) PROVE Inv'
    BY <2>2 DEF Refuse, CartEvent
  <2>3. ASSUME NEW c \in Command, ReadForEdit(c) PROVE Inv'
    <3>1. [snapshot EXCEPT !.edits = @ \cup {c}, !.version = @ + 1] \in Projection
      BY ChangedProjection, Zenon
    <3>2. QED
      BY <2>3, <3>1, SMTT(60) DEF ReadForEdit, Ready, CartEvent
  <2>4. ASSUME NEW c \in Command, ReadForFulfillment(c) PROVE Inv'
    <3>1. [snapshot EXCEPT !.dest = c, !.version = @ + 1] \in Projection
      BY ChangedProjection, Zenon
    <3>2. QED
      BY <2>4, <3>1, SMTT(60) DEF ReadForFulfillment, Ready, CartEvent
  <2>5. ASSUME NEW c \in Command, ReadForStart(c) PROVE Inv'
    <3>1. [snapshot EXCEPT !.status = "checkout_ready", !.version = @ + 1] \in Projection
      BY ChangedProjection, Zenon
    <3>2. QED
      BY <2>5, <3>1, SMTT(60) DEF ReadForStart, Ready, CartEvent
  <2>6. ASSUME NEW c \in Command, ReadForCancel(c) PROVE Inv'
    <3>1. [snapshot EXCEPT !.status = "cancelled", !.version = @ + 1] \in Projection
      BY ChangedProjection, Zenon
    <3>2. QED
      BY <2>6, <3>1, SMTT(60) DEF ReadForCancel, Ready, CartEvent
  <2>7. ASSUME NEW c \in Command, ReadForCheckout(c) PROVE Inv'
    BY <2>7 DEF ReadForCheckout, Ready, CartEvent
  <2>8. ASSUME NEW c \in Command, GetState(c) PROVE Inv'
    BY <2>8 DEF GetState
  <2>9. ASSUME NEW c \in Command, InvalidTransition(c) PROVE Inv'
    BY <2>9 DEF InvalidTransition, CartEvent
  <2>10. ASSUME NEW c \in Command, SetState(c) PROVE Inv'
    <3>1. state' \in CartState
      BY <2>10, NextCartStateType DEF SetState
    <3>2. After(pc[c]) \in {"price", "tax", "geo", "put", "done"}
      BY DEF After
    <3>3. QED
      BY <2>10, <3>1, <3>2 DEF SetState, CartEvent
  <2>11. ASSUME NEW c \in Command, Resolve(c) PROVE Inv'
    <3>1. /\ [copy[c] EXCEPT !.priced = copy[c].edits] \in Projection
          /\ [copy[c] EXCEPT !.geoFor = copy[c].dest] \in Projection
          /\ [copy[c] EXCEPT !.priced = copy[c].edits, !.geoFor = copy[c].dest] \in Projection
      BY ZenonT(60) DEF Projection
    <3>2. copy' \in [Command -> Projection]
      BY <2>11, <3>1 DEF Resolve
    <3>3. pc[c] \notin CartEvent /\ seen[c] \in CartState \cup {NoState}
      BY <2>11 DEF Resolve, CartEvent
    <3>4. QED
      BY <2>11, <3>2, <3>3 DEF Resolve, CartEvent
  <2>12. ASSUME NEW c \in Command, PutSnapshot(c) PROVE Inv'
    BY <2>12 DEF PutSnapshot, CartEvent
  <2>13. ASSUME NEW c \in Command, Abort(c) PROVE Inv'
    BY <2>13 DEF Abort, CartEvent
  <2>14. CASE UNCHANGED vars
    BY <2>14 DEF vars
  <2>15. QED
    BY <2>1, <2>2, <2>3, <2>4, <2>5, <2>6, <2>7, <2>8, <2>9, <2>10, <2>11, <2>12, <2>13, <2>14
       DEF Next, Begin, Step
<1>3. QED
  BY <1>1, <1>2, PTL DEF Spec

\* No interleaving of commands writes a state or a projection of another type,
\* and no state is written that next_cart_state did not yield.
THEOREM CartTypeCorrect == Spec => []TypeOK
BY MovesAreValid, PTL

-----------------------------------------------------------------------------
(* No command ever stores, returns or sells half a cart.                   *)

\* How much of a command's copy has been worked out by each await.
Progress(c) ==
    /\ pc[c] \in {"ItemChanged", "price", "PricingResolved", "tax", "TaxResolved", "geo"} =>
          copy[c].geoFor = copy[c].dest
    /\ pc[c] \in {"PricingResolved", "tax", "TaxResolved", "geo", "quote"} =>
          copy[c].priced = copy[c].edits
    /\ pc[c] \in {"GeoValidated", "put", "MarkCheckoutReady", "Cancel", "sold"} =>
          Whole(copy[c])

WholeInv ==
    /\ Whole(snapshot)
    /\ \A p \in given : Whole(p)
    /\ \A c \in Command : Progress(c)

\* The stored cart, every projection given to a caller and every cart a checkout
\* goes on to sell has totals for exactly its edits and a geo verdict for its own
\* destination: the writes are of whole copies, so a lost race or an error loses
\* an edit but never mixes two.
THEOREM CartStaysWhole == Spec => []CartIsWhole
<1> USE CartAssumption
<1>1. Init => WholeInv
  BY DEF Init, WholeInv, Whole, Progress
<1>2. TypeOK /\ WholeInv /\ [Next]_vars => WholeInv'
  <2> SUFFICES ASSUME TypeOK, WholeInv, [Next]_vars PROVE WholeInv'
    OBVIOUS
  <2> USE DEF TypeOK, WholeInv, Whole, Progress, Goto
  <2>1. CASE GetCart
    BY <2>1 DEF GetCart
  <2>2. ASSUME NEW c \in Command, Refuse(c) PROVE WholeInv'
    BY <2>2 DEF Refuse
  <2>3. ASSUME NEW c \in Command, ReadForEdit(c) PROVE WholeInv'
    <3>1. copy'[c].geoFor = snapshot.geoFor /\ copy'[c].dest = snapshot.dest
      BY <2>3 DEF ReadForEdit, Projection
    <3>2. QED
      BY <2>3, <3>1 DEF ReadForEdit
  <2>4. ASSUME NEW c \in Command, ReadForFulfillment(c) PROVE WholeInv'
    <3>1. copy'[c].priced = snapshot.priced /\ copy'[c].edits = snapshot.edits
      BY <2>4 DEF ReadForFulfillment, Projection
    <3>2. QED
      BY <2>4, <3>1 DEF ReadForFulfillment
  <2>5. ASSUME NEW c \in Command, ReadForStart(c) PROVE WholeInv'
    <3> DEFINE started == [snapshot EXCEPT !.status = "checkout_ready", !.version = @ + 1]
    <3>0. Whole(started)
      BY DEF Projection
    <3> HIDE DEF started
    <3>1. pc'[c] = "put" => Whole(copy'[c])
      <4>1. pc'[c] = "put" => copy'[c] = started
        BY <2>5 DEF ReadForStart, started
      <4>2. QED
        BY <3>0, <4>1
    <3>2. pc'[c] \in {"put", "done"}
      BY <2>5 DEF ReadForStart
    <3>3. \A d \in Command : d # c => pc'[d] = pc[d] /\ copy'[d] = copy[d]
      BY <2>5 DEF ReadForStart
    <3>4. UNCHANGED <<snapshot, given>>
      BY <2>5 DEF ReadForStart
    <3>5. QED
      BY <3>1, <3>2, <3>3, <3>4
  <2>6. ASSUME NEW c \in Command, ReadForCancel(c) PROVE WholeInv'
    <3>1. Whole(copy'[c])
      BY <2>6 DEF ReadForCancel, Projection
    <3>2. QED
      BY <2>6, <3>1 DEF ReadForCancel
  <2>7. ASSUME NEW c \in Command, ReadForCheckout(c) PROVE WholeInv'
    BY <2>7 DEF ReadForCheckout
  <2>8. ASSUME NEW c \in Command, GetState(c) PROVE WholeInv'
    BY <2>8 DEF GetState
  <2>9. ASSUME NEW c \in Command, InvalidTransition(c) PROVE WholeInv'
    BY <2>9 DEF InvalidTransition
  <2>10. ASSUME NEW c \in Command, SetState(c) PROVE WholeInv'
    <3>1. After(pc[c]) = "done" => pc[c] \in {"MarkCheckoutReady", "Cancel"}
      BY <2>10 DEF SetState, After, CartEvent
    <3>2. /\ After(pc[c]) = "price" => pc[c] = "ItemChanged"
          /\ After(pc[c]) = "tax" => pc[c] = "PricingResolved"
          /\ After(pc[c]) = "geo" => pc[c] = "TaxResolved"
          /\ After(pc[c]) = "put" => pc[c] = "GeoValidated"
          /\ After(pc[c]) \in {"price", "tax", "geo", "put", "done"}
      BY <2>10 DEF SetState, After, CartEvent
    <3>3. \A p \in given' : Whole(p)
      BY <2>10, <3>1 DEF SetState
    <3>4. QED
      BY <2>10, <3>2, <3>3 DEF SetState
  <2>11. ASSUME NEW c \in Command, Resolve(c) PROVE WholeInv'
    <3>1. Progress(c)'
      BY <2>11 DEF Resolve, Projection
    <3>2. \A d \in Command : d # c => pc'[d] = pc[d] /\ copy'[d] = copy[d]
      BY <2>11 DEF Resolve
    <3>3. QED
      BY <2>11, <3>1, <3>2 DEF Resolve
  <2>12. ASSUME NEW c \in Command, PutSnapshot(c) PROVE WholeInv'
    BY <2>12 DEF PutSnapshot
  <2>13. ASSUME NEW c \in Command, Abort(c) PROVE WholeInv'
    BY <2>13 DEF Abort
  <2>14. CASE UNCHANGED vars
    BY <2>14 DEF vars
  <2>15. QED
    BY <2>1, <2>2, <2>3, <2>4, <2>5, <2>6, <2>7, <2>8, <2>9, <2>10, <2>11, <2>12, <2>13, <2>14
       DEF Next, Begin, Step
<1>3. WholeInv => CartIsWhole
  BY DEF WholeInv, CartIsWhole, Progress
<1>4. QED
  BY <1>1, <1>2, <1>3, CartTypeCorrect, PTL DEF Spec

-----------------------------------------------------------------------------
(* One command at a time.                                                  *)

\* A command that has started and not ended.
Active(c) == pc[c] # "idle" /\ ~Ended(c)

\* Where a command of each kind can be, and where it leaves the state machine.
Place(c) ==
    /\ pc[c] \in {"ItemChanged", "price", "PricingResolved", "tax", "TaxResolved", "geo",
                  "GeoValidated"} => KindOf[c] = "edit"
    /\ pc[c] = "quote" => KindOf[c] = "fulfillment"
    /\ pc[c] = "MarkCheckoutReady" => KindOf[c] = "start"
    /\ pc[c] = "Cancel" => KindOf[c] = "cancel"
    /\ pc[c] = "reprice" => KindOf[c] = "checkout"
    /\ pc[c] \in {"price", "PricingResolved"} => state = "ItemsMutated"
    /\ pc[c] \in {"tax", "TaxResolved"} => state = "Repriced"
    /\ pc[c] \in {"geo", "GeoValidated"} => state = "Retaxed"
    /\ pc[c] = "put" /\ KindOf[c] = "edit" => state = "GeoChecked"
    /\ seen[c] \in {NoState, state}

\* The copy against what is stored: the next version of it, with no edit lost
\* and at most its own gained; what was just stored; or, of a checkout, the same
\* version of the same contents.
Draft(c) ==
    /\ KindOf[c] # "checkout" /\ pc[c] \notin {"MarkCheckoutReady", "Cancel"} =>
         /\ copy[c].version = snapshot.version + 1
         /\ snapshot.edits \subseteq copy[c].edits
         /\ KindOf[c] # "edit" => copy[c].edits = snapshot.edits
    /\ pc[c] \in {"MarkCheckoutReady", "Cancel"} => copy[c] = snapshot
    /\ KindOf[c] = "checkout" =>
         /\ copy[c].version = snapshot.version
         /\ copy[c].edits = snapshot.edits /\ copy[c].dest = snapshot.dest

\* A checkout works on what its caller was shown.
Shown(c) ==
    /\ pc[c] = "sold" => KindOf[c] = "checkout"
    /\ KindOf[c] = "checkout" /\ pc[c] \notin {"idle", "done"} =>
         copy[c].edits = view[c].edits /\ copy[c].dest = view[c].dest

\* A version number says which contents they are.
Known(p) ==
    /\ p.version <= snapshot.version
    /\ p.version = snapshot.version => p.edits = snapshot.edits /\ p.dest = snapshot.dest
    /\ p.edits \subseteq snapshot.edits

TurnInv ==
    /\ \A c, d \in Command : Active(c) /\ Active(d) => c = d
    /\ \A c \in Command : Active(c) => Place(c) /\ Draft(c)
    /\ \A c \in Command : Shown(c)
    /\ \A p \in given : Known(p)

\* Nothing of another command moves, and no other is active.
Alone(c) ==
    \A d \in Command : d # c =>
        ~Active(d) /\ pc'[d] = pc[d] /\ copy'[d] = copy[d] /\ view'[d] = view[d]

\* So a step keeps the invariant if it does for the command that takes it.
LEMMA TurnStep ==
  ASSUME TypeOK, TurnInv, NEW c \in Command, Alone(c),
         Active(c)' => Place(c)' /\ Draft(c)', Shown(c)', \A p \in given' : Known(p)'
  PROVE  TurnInv'
<1>1. \A d \in Command : d # c => ~Active(d)' /\ Shown(d)'
  BY DEF Alone, Active, Ended, Shown, TurnInv
<1>2. QED
  BY <1>1 DEF TurnInv

\* Where commands take turns, the invariant holds.
LEMMA TurnsAreKept ==
  ASSUME ~Concurrent
  PROVE  Spec => []TurnInv
<1> USE CartAssumption
<1>1. Init => TurnInv
  BY DEF Init, TurnInv, Active, Shown, Known
<1>2. TypeOK /\ Moves /\ TurnInv /\ [Next]_vars => TurnInv'
  <2> SUFFICES ASSUME TypeOK, Moves, TurnInv, [Next]_vars PROVE TurnInv'
    OBVIOUS
  <2> USE DEF TypeOK, Goto
  <2>1. ASSUME NEW c \in Command, Begin(c), ~Refuse(c)
        PROVE  Alone(c) /\ UNCHANGED <<snapshot, state, seen, given>> /\ seen[c] = NoState
    BY <2>1 DEF Begin, ReadForEdit, ReadForFulfillment, ReadForStart, ReadForCancel,
       ReadForCheckout, Ready, Alone, Active, Moves, CartEvent
  <2>2. ASSUME NEW c \in Command, Step(c) \/ Abort(c)
        PROVE  Active(c) /\ Place(c) /\ Draft(c) /\ Shown(c) /\ Alone(c)
    <3>1. Active(c)
      BY <2>2 DEF Step, Abort, GetState, InvalidTransition, SetState, Resolve, PutSnapshot,
         Active,
         Ended, CartEvent
    <3>2. \A d \in Command : d # c => pc'[d] = pc[d] /\ copy'[d] = copy[d] /\ view'[d] = view[d]
      BY <2>2 DEF Step, Abort, GetState, InvalidTransition, SetState, Resolve, PutSnapshot
    <3>3. QED
      BY <3>1, <3>2 DEF TurnInv, Alone
  <2>3. ASSUME UNCHANGED <<snapshot, given>> PROVE \A p \in given' : Known(p)'
    BY <2>3 DEF TurnInv, Known
  <2>4. ASSUME NEW c \in Command, pc'[c] = "done" PROVE ~Active(c)' /\ Shown(c)'
    BY <2>4 DEF Active, Ended, Shown
  <2>5. CASE GetCart
    <3>1. Known(snapshot)
      BY DEF Known, Projection
    <3>2. QED
      BY <2>5, <3>1 DEF GetCart, TurnInv, Known, Active, Ended, Place, Draft, Shown
  <2>6. ASSUME NEW c \in Command, Refuse(c) PROVE TurnInv'
    BY <2>6 DEF Refuse, TurnInv, Known, Active, Ended, Place, Draft, Shown
  <2>7. ASSUME NEW c \in Command, ReadForEdit(c) PROVE TurnInv'
    <3>1. /\ copy'[c].version = snapshot.version + 1 /\ copy'[c].edits = snapshot.edits \cup {c}
          /\ pc'[c] = "ItemChanged" /\ KindOf[c] = "edit"
      BY <2>7 DEF ReadForEdit, Ready, Projection
    <3>2. Alone(c) /\ UNCHANGED <<snapshot, state, seen, given>> /\ seen[c] = NoState
      BY <2>1, <2>7, <3>1 DEF Begin, Refuse
    <3>3. Place(c)' /\ Draft(c)' /\ Shown(c)'
      BY <3>1, <3>2 DEF Place, Draft, Shown
    <3>4. QED
      BY <2>3, <3>2, <3>3, TurnStep
  <2>8. ASSUME NEW c \in Command, ReadForFulfillment(c) PROVE TurnInv'
    <3>1. /\ copy'[c].version = snapshot.version + 1 /\ copy'[c].edits = snapshot.edits
          /\ pc'[c] = "quote" /\ KindOf[c] = "fulfillment"
      BY <2>8 DEF ReadForFulfillment, Ready, Projection
    <3>2. Alone(c) /\ UNCHANGED <<snapshot, state, seen, given>> /\ seen[c] = NoState
      BY <2>1, <2>8, <3>1 DEF Begin, Refuse
    <3>3. Place(c)' /\ Draft(c)' /\ Shown(c)'
      BY <3>1, <3>2 DEF Place, Draft, Shown
    <3>4. QED
      BY <2>3, <3>2, <3>3, TurnStep
  <2>9. ASSUME NEW c \in Command, ReadForCancel(c) PROVE TurnInv'
    <3>1. /\ copy'[c].version = snapshot.version + 1 /\ copy'[c].edits = snapshot.edits
          /\ pc'[c] = "put" /\ KindOf[c] = "cancel"
      BY <2>9 DEF ReadForCancel, Ready, Projection
    <3>2. Alone(c) /\ UNCHANGED <<snapshot, state, seen, given>> /\ seen[c] = NoState
      BY <2>1, <2>9, <3>1 DEF Begin, Refuse
    <3>3. Place(c)' /\ Draft(c)' /\ Shown(c)'
      BY <3>1, <3>2 DEF Place, Draft, Shown
    <3>4. QED
      BY <2>3, <3>2, <3>3, TurnStep
  <2>10. ASSUME NEW c \in Command, ReadForStart(c) PROVE TurnInv'
    <3>1. KindOf[c] = "start" /\ pc'[c] \in {"put", "done"}
      BY <2>10 DEF ReadForStart, Ready
    <3>2. Alone(c) /\ UNCHANGED <<snapshot, state, seen, given>> /\ seen[c] = NoState
      BY <2>10 DEF ReadForStart, Ready, Alone, Active, Moves, CartEvent
    <3>3. CASE pc'[c] = "put"
      <4>1. copy'[c] = [snapshot EXCEPT !.status = "checkout_ready", !.version = @ + 1]
        BY <2>10, <3>3 DEF ReadForStart
      <4>2. copy'[c].version = snapshot.version + 1 /\ copy'[c].edits = snapshot.edits
        BY <4>1 DEF Projection
      <4>3. Place(c)' /\ Draft(c)' /\ Shown(c)'
        BY <3>1, <3>2, <3>3, <4>2 DEF Place, Draft, Shown
      <4>4. QED
        BY <2>3, <3>2, <4>3, TurnStep
    <3>4. CASE pc'[c] = "done"
      BY <2>3, <2>4, <3>2, <3>4, TurnStep
    <3>5. QED
      BY <3>1, <3>3, <3>4
  <2>11. ASSUME NEW c \in Command, ReadForCheckout(c) PROVE TurnInv'
    <3>1. KindOf[c] = "checkout" /\ pc'[c] \in {"reprice", "done"}
      BY <2>11 DEF ReadForCheckout, Ready
    <3>2. Alone(c) /\ UNCHANGED <<snapshot, state, seen, given>> /\ seen[c] = NoState
      BY <2>11 DEF ReadForCheckout, Ready, Alone, Active, Moves, CartEvent
    <3>3. CASE pc'[c] = "reprice"
      <4>1. copy'[c] = snapshot /\ \E v \in given : view'[c] = v /\ v.version = snapshot.version
        BY <2>11, <3>3 DEF ReadForCheckout
      <4>2. view'[c].edits = snapshot.edits /\ view'[c].dest = snapshot.dest
        BY <4>1 DEF TurnInv, Known
      <4>3. Place(c)' /\ Draft(c)' /\ Shown(c)'
        BY <3>1, <3>2, <3>3, <4>1, <4>2 DEF Place, Draft, Shown
      <4>4. QED
        BY <2>3, <3>2, <4>3, TurnStep
    <3>4. CASE pc'[c] = "done"
      BY <2>3, <2>4, <3>2, <3>4, TurnStep
    <3>5. QED
      BY <3>1, <3>3, <3>4
  <2>12. ASSUME NEW c \in Command, GetState(c) PROVE TurnInv'
    <3>1. Place(c)' /\ Draft(c)' /\ Shown(c)'
      BY <2>2, <2>12 DEF Step, GetState, Place, Draft, Shown
    <3>2. QED
      BY <2>2, <2>3, <2>12, <3>1, TurnStep DEF Step, GetState
  <2>13. ASSUME NEW c \in Command, InvalidTransition(c) \/ Abort(c) PROVE TurnInv'
    <3>1. pc'[c] = "done" /\ UNCHANGED <<snapshot, given>>
      BY <2>13 DEF InvalidTransition, Abort
    <3>2. QED
      BY <2>2, <2>3, <2>4, <2>13, <3>1, TurnStep DEF Step
  <2>14. ASSUME NEW c \in Command, SetState(c) PROVE TurnInv'
    <3>1. Active(c) /\ Place(c) /\ Draft(c) /\ Shown(c) /\ Alone(c)
      BY <2>2, <2>14 DEF Step
    <3>2. /\ seen'[c] = NoState /\ UNCHANGED <<snapshot, copy, view>>
          /\ pc[c] \in CartEvent /\ pc'[c] = After(pc[c])
          /\ state' = NextCartState(seen[c], pc[c]) /\ state' # NoState
      BY <2>14 DEF SetState, Moves
    <3>3. CASE pc[c] \in {"MarkCheckoutReady", "Cancel"}
      <4>1. pc'[c] = "done" /\ given' = given \cup {snapshot}
        BY <2>14, <3>1, <3>2, <3>3 DEF SetState, After, Draft
      <4>2. \A p \in given' : Known(p)'
        BY <3>2, <4>1 DEF TurnInv, Known, Projection
      <4>3. QED
        BY <2>4, <3>1, <4>1, <4>2, TurnStep
    <3>4. CASE pc[c] \in {"ItemChanged", "PricingResolved", "TaxResolved", "GeoValidated"}
      <4>1. /\ pc[c] = "ItemChanged" => pc'[c] = "price" /\ state' = "ItemsMutated"
            /\ pc[c] = "PricingResolved" => pc'[c] = "tax" /\ state' = "Repriced"
            /\ pc[c] = "TaxResolved" => pc'[c] = "geo" /\ state' = "Retaxed"
            /\ pc[c] = "GeoValidated" => pc'[c] = "put" /\ state' = "GeoChecked"
        BY <3>2 DEF After, NextCartState
      <4>2. given' = given
        BY <2>14, <3>2, <3>4, <4>1 DEF SetState
      <4>3. Place(c)' /\ Draft(c)' /\ Shown(c)'
        BY <3>1, <3>2, <3>4, <4>1 DEF Place, Draft, Shown
      <4>4. QED
        BY <2>3, <3>1, <3>2, <4>2, <4>3, TurnStep
    <3>5. QED
      BY <3>2, <3>3, <3>4 DEF CartEvent
  <2>15. ASSUME NEW c \in Command, Resolve(c) PROVE TurnInv'
    <3>1. Active(c) /\ Place(c) /\ Draft(c) /\ Shown(c) /\ Alone(c)
      BY <2>2, <2>15 DEF Step
    <3>2. /\ copy'[c].version = copy[c].version /\ copy'[c].edits = copy[c].edits
          /\ copy'[c].dest = copy[c].dest
      BY <2>15 DEF Resolve, Projection
    <3>3. /\ UNCHANGED <<snapshot, state, seen, view, given>>
          /\ \/ pc[c] = "price" /\ pc'[c] = "PricingResolved"
             \/ pc[c] = "tax" /\ pc'[c] = "TaxResolved"
             \/ pc[c] = "geo" /\ pc'[c] = "GeoValidated"
             \/ pc[c] \in {"quote", "reprice"} /\ pc'[c] = "put"
      BY <2>15 DEF Resolve
    <3>4. Place(c)' /\ Draft(c)' /\ Shown(c)'
      BY <3>1, <3>2, <3>3 DEF Place, Draft, Shown
    <3>5. QED
      BY <2>3, <3>1, <3>3, <3>4, TurnStep
  <2>16. ASSUME NEW c \in Command, PutSnapshot(c) PROVE TurnInv'
    <3>1. Active(c) /\ Place(c) /\ Draft(c) /\ Shown(c) /\ Alone(c)
      BY <2>2, <2>16 DEF Step
    <3>2. pc[c] = "put" /\ snapshot' = copy[c] /\ UNCHANGED <<state, copy, seen, view>>
      BY <2>16 DEF PutSnapshot
    <3>3. /\ KindOf[c] = "start" => pc'[c] = "MarkCheckoutReady" /\ given' = given
          /\ KindOf[c] = "cancel" => pc'[c] = "Cancel" /\ given' = given
          /\ KindOf[c] = "checkout" => pc'[c] \in {"done", "sold"} /\ given' = given
          /\ KindOf[c] \in {"edit", "fulfillment"} =>
               pc'[c] = "done" /\ given' = given \cup {copy[c]}
          /\ KindOf[c] \in Kinds
      BY <2>16 DEF PutSnapshot
    <3>4. /\ snapshot.edits \subseteq copy[c].edits
          /\ KindOf[c] # "checkout" => copy[c].version = snapshot.version + 1
          /\ KindOf[c] = "checkout" =>
               /\ copy[c].version = snapshot.version
               /\ copy[c].edits = snapshot.edits /\ copy[c].dest = snapshot.dest
      BY <3>1, <3>2 DEF Draft
    <3>5. \A p \in given : Known(p)'
      <4> SUFFICES ASSUME NEW p \in given PROVE Known(p)'
        OBVIOUS
      <4>1. /\ p.version <= snapshot.version /\ p.edits \subseteq snapshot.edits
            /\ p.version = snapshot.version => p.edits = snapshot.edits /\ p.dest = snapshot.dest
            /\ p.version \in Nat /\ snapshot.version \in Nat
        BY DEF TurnInv, Known, Projection
      <4>2. QED
        BY <3>2, <3>4, <4>1 DEF Known
    <3>6. Known(copy[c])'
      BY <3>2 DEF Known, Projection
    <3>7. \A p \in given' : Known(p)'
      BY <3>2, <3>3, <3>5, <3>6 DEF Kinds
    <3>8. Shown(c)'
      BY <3>1, <3>2, <3>3 DEF Shown, Kinds
    <3>9. Active(c)' => Place(c)' /\ Draft(c)'
      BY <3>1, <3>2, <3>3 DEF Active, Ended, Place, Draft, Kinds
    <3>10. QED
      BY <3>1, <3>7, <3>8, <3>9, TurnStep
  <2>17. CASE UNCHANGED vars
    BY <2>17 DEF vars, TurnInv, Known, Active, Ended, Place, Draft, Shown
  <2>18. QED
    BY <2>5, <2>6, <2>7, <2>8, <2>9, <2>10, <2>11, <2>12, <2>13, <2>14, <2>15, <2>16, <2>17
       DEF Next, Begin, Step
<1>3. QED
  BY <1>1, <1>2, MovesAreValid, PTL DEF Spec

\* Where commands take turns, a checkout that gets past the version check sells
\* what its caller had been shown under that version.
THEOREM StaleVersionsAreRefused ==
  ASSUME ~Concurrent
  PROVE  Spec => []StaleVersionIsRefused
<1>1. TurnInv => StaleVersionIsRefused
  BY DEF TurnInv, Shown, StaleVersionIsRefused
<1>2. QED
  BY <1>1, TurnsAreKept, PTL

\* Where commands take turns, no edit that its caller was told had succeeded
\* drops out of the cart, wherever the commands after it fail.
THEOREM EditsAreKept ==
  ASSUME ~Concurrent
  PROVE  Spec => []EditIsKept
<1>1. TurnInv => EditIsKept
  BY DEF TurnInv, Known, EditIsKept
<1>2. QED
  BY <1>1, TurnsAreKept, PTL

\* Where commands take turns, cancellation is final for the state machine, and
\* the lines of a cart that is cancelled there stay as they are.
THEOREM CancelledStaysClosed ==
  ASSUME ~Concurrent
  PROVE  Spec => CancelledIsClosed
<1> USE CartAssumption
<1>1. TypeOK /\ Moves /\ TurnInv /\ [Next]_vars =>
        [state = "Cancelled" => state' = "Cancelled" /\ snapshot'.edits = snapshot.edits]_vars
  <2> SUFFICES ASSUME TypeOK, Moves, TurnInv, Next, state = "Cancelled"
               PROVE  state' = "Cancelled" /\ snapshot'.edits = snapshot.edits
    OBVIOUS
  <2>1. ASSUME NEW c \in Command, SetState(c) PROVE FALSE
    <3>1. pc[c] \in CartEvent /\ seen[c] # NoState
      BY <2>1 DEF SetState
    <3>2. seen[c] = state
      BY <3>1 DEF TurnInv, Active, Ended, Place, CartEvent
    <3>3. NextCartState("Cancelled", pc[c]) # NoState
      BY <3>1, <3>2 DEF Moves
    <3>4. QED
      BY <3>3 DEF NextCartState
  <2>2. ASSUME NEW c \in Command, PutSnapshot(c)
        PROVE  state' = "Cancelled" /\ snapshot'.edits = snapshot.edits
    <3>1. pc[c] = "put" /\ snapshot' = copy[c] /\ state' = state
      BY <2>2 DEF PutSnapshot
    <3>2. Place(c) /\ Draft(c)
      BY <3>1 DEF TurnInv, Active, Ended
    <3>3. KindOf[c] # "edit"
      BY <3>1, <3>2 DEF Place
    <3>4. QED
      BY <3>1, <3>2, <3>3 DEF Draft
  <2>3. QED
    BY <2>1, <2>2, Zenon DEF Next, Begin, Step, GetCart, Refuse, ReadForEdit, ReadForFulfillment,
       ReadForStart, ReadForCancel, ReadForCheckout, GetState, InvalidTransition, Resolve, Abort
<1>2. QED
  BY <1>1, MovesAreValid, TurnsAreKept, PTL DEF Spec, CancelledIsClosed
=============================================================================
