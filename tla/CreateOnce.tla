----------------------------- MODULE CreateOnce -----------------------------
(***************************************************************************)
(* What an idempotency key promises: one of the calls that use it makes    *)
(* the payment, every other one is told of that payment if it asks for the *)
(* same thing and is turned away if it does not; a call that is refused,   *)
(* fails or is cut off before it made the payment leaves the key free.     *)
(* Only the caller that was cut off is not told what happened.             *)
(***************************************************************************)
CONSTANTS Calls, KeyOf, BodyOf, NoCall

VARIABLES
    owner,  \* the call that made the payment of each key
    reply,  \* what each call was answered, "none" while it has no answer
    told    \* whose payment it was told of

vars == <<owner, reply, told>>

Init ==
    /\ owner = [k \in {KeyOf[c] : c \in Calls} |-> NoCall]
    /\ reply = [c \in Calls |-> "none"]
    /\ told = [c \in Calls |-> NoCall]

Answer(c, word, o) ==
    /\ reply[c] = "none"
    /\ reply' = [reply EXCEPT ![c] = word]
    /\ told' = [told EXCEPT ![c] = o]

Create(c) ==
    /\ owner[KeyOf[c]] = NoCall
    /\ owner' = [owner EXCEPT ![KeyOf[c]] = c]
    /\ Answer(c, "created", c) \/ Answer(c, "denied", c) \/ Answer(c, "lost", NoCall)

Replay(c) ==
    /\ owner[KeyOf[c]] # NoCall
    /\ BodyOf[owner[KeyOf[c]]] = BodyOf[c]
    /\ Answer(c, "replayed", owner[KeyOf[c]])
    /\ UNCHANGED owner

Conflict(c) ==
    /\ owner[KeyOf[c]] # NoCall
    /\ BodyOf[owner[KeyOf[c]]] # BodyOf[c]
    /\ Answer(c, "conflict", NoCall)
    /\ UNCHANGED owner

TurnAway(c) ==
    /\ \E word \in {"refused", "error", "lost"} : Answer(c, word, NoCall)
    /\ UNCHANGED owner

Next == \E c \in Calls : Create(c) \/ Replay(c) \/ Conflict(c) \/ TurnAway(c)

Spec == Init /\ [][Next]_vars
=============================================================================
