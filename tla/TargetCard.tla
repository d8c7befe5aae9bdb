------------------------------ MODULE TargetCard ------------------------------
(***************************************************************************)
(* What the studio draws for a project's target                            *)
(* (apps/control-plane/public/app.js): the button that queues a run, with  *)
(* its idempotency key in the session storage, and the form that registers *)
(* a contract.  The page is drawn anew at any time (loadProject); the      *)
(* handlers of the old one go on.                                          *)
(***************************************************************************)
EXTENDS Integers, FiniteSets

CONSTANTS
    Contracts,      \* what the form can say
    Handlers,       \* bound: presses of the run button that wait at once
    MaxKeys,        \* bound: idempotency keys drawn
    Nothing

VARIABLES
    drawnKeys,      \* how many keys were drawn; a key is its number
    storedKey,      \* the session storage of the target's key
    presses,        \* handlers: [key, here]; here: their button is on the page
    queued,         \* the keys under which a run was queued
    answered,       \* presses whose success was answered (counted up to MaxKeys)
    contract,       \* what the form on the page says
    snapshot,       \* validatedSnapshot
    checking,       \* the validation that waits: [contract, here], or Nothing
    passed,         \* contracts the service validated
    registered      \* contracts that were sent for registration

runVars == <<drawnKeys, storedKey, presses, queued, answered>>
formVars == <<contract, snapshot, checking, passed, registered>>
cardVars == <<runVars, formVars>>

Idle == [key |-> Nothing, here |-> FALSE]

-----------------------------------------------------------------------------
(* The run button.                                                         *)

(* A press takes the stored key, or draws one and stores it; the button is *)
(* off until its answer.                                                   *)
Press(h) ==
    /\ presses[h] = Idle /\ \A g \in Handlers : ~presses[g].here
    /\ LET key == IF storedKey = Nothing THEN drawnKeys + 1 ELSE storedKey
       IN  /\ key <= MaxKeys
           /\ drawnKeys' = IF storedKey = Nothing THEN key ELSE drawnKeys
           /\ storedKey' = key
           /\ presses' = [presses EXCEPT ![h] = [key |-> key, here |-> TRUE]]
    /\ UNCHANGED <<queued, answered>> /\ UNCHANGED formVars

(* A key that was used is answered with its run. *)
RunAnswered(h) ==
    /\ presses[h] # Idle
    /\ queued' = queued \cup {presses[h].key}
    /\ answered' = IF answered < MaxKeys THEN answered + 1 ELSE answered
    /\ storedKey' = Nothing
    /\ presses' = [presses EXCEPT ![h] = Idle]
    /\ UNCHANGED drawnKeys /\ UNCHANGED formVars

(* Refused, or queued and the answer lost: the key stays for the next      *)
(* press.                                                                  *)
RunFails(h) ==
    /\ presses[h] # Idle
    /\ queued' \in {queued, queued \cup {presses[h].key}}
    /\ presses' = [presses EXCEPT ![h] = Idle]
    /\ UNCHANGED <<drawnKeys, storedKey, answered>> /\ UNCHANGED formVars

-----------------------------------------------------------------------------
(* The target form.                                                        *)

(* Any input drops the snapshot. *)
Edit(c) ==
    /\ c # contract
    /\ contract' = c /\ snapshot' = Nothing
    /\ UNCHANGED <<checking, passed, registered>> /\ UNCHANGED runVars

Validate ==
    /\ checking = Nothing
    /\ checking' = [contract |-> contract, here |-> TRUE]
    /\ UNCHANGED <<contract, snapshot, passed, registered>> /\ UNCHANGED runVars

(* The answer is about the contract that was sent, whatever the form says  *)
(* by now.                                                                 *)
Validated ==
    /\ checking # Nothing
    /\ snapshot' = IF checking.here THEN checking.contract ELSE snapshot
    /\ passed' = passed \cup {checking.contract}
    /\ checking' = Nothing
    /\ UNCHANGED <<contract, registered>> /\ UNCHANGED runVars

(* An earlier snapshot stays. *)
ValidationFails ==
    /\ checking # Nothing /\ checking' = Nothing
    /\ UNCHANGED <<contract, snapshot, passed, registered>> /\ UNCHANGED runVars

(* What is sent is compared with what was validated. *)
Register ==
    /\ snapshot # Nothing
    /\ IF snapshot = contract
       THEN registered' = registered \cup {contract} /\ UNCHANGED snapshot
       ELSE snapshot' = Nothing /\ UNCHANGED registered
    /\ UNCHANGED <<contract, checking, passed>> /\ UNCHANGED runVars

-----------------------------------------------------------------------------
(* The page is drawn anew: a new button, and the form as it was at first.  *)
Redraw(c) ==
    /\ presses' = [h \in Handlers |-> [presses[h] EXCEPT !.here = FALSE]]
    /\ contract' = c /\ snapshot' = Nothing
    /\ checking' = IF checking = Nothing THEN Nothing ELSE [checking EXCEPT !.here = FALSE]
    /\ UNCHANGED <<drawnKeys, storedKey, queued, answered, passed, registered>>

Init ==
    /\ drawnKeys = 0 /\ storedKey = Nothing /\ queued = {} /\ answered = 0
    /\ presses = [h \in Handlers |-> Idle]
    /\ contract \in Contracts /\ snapshot = Nothing /\ checking = Nothing
    /\ passed = {} /\ registered = {}

Next ==
    \/ \E h \in Handlers : Press(h) \/ RunAnswered(h) \/ RunFails(h)
    \/ \E c \in Contracts : Edit(c) \/ Redraw(c)
    \/ Validate \/ Validated \/ ValidationFails \/ Register

-----------------------------------------------------------------------------
TypeOK ==
    /\ drawnKeys \in 0..MaxKeys /\ answered \in 0..MaxKeys
    /\ storedKey \in 1..MaxKeys \cup {Nothing}
    /\ queued \subseteq 1..drawnKeys
    /\ contract \in Contracts /\ snapshot \in Contracts \cup {Nothing}
    /\ registered \subseteq Contracts

(* However often the button is pressed, on however many drawings of the    *)
(* page, and whichever answers are lost: at most one run is queued beyond  *)
(* the presses that were answered with one.                                *)
RunsAnswered == Cardinality(queued) <= answered + 1

(* A contract that was edited while its validation ran, or whose answer    *)
(* came to a form drawn since, is not registered without one of its own.   *)
RegisteredAsValidated == registered \subseteq passed
=============================================================================
