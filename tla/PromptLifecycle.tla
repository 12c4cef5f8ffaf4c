--------------------------- MODULE PromptLifecycle ---------------------------
(* What the pending-prompt broker promises to whoever asks a question: a      *)
(* prompt is opened once, shown by at most one listener, and then either      *)
(* answered exactly once or withdrawn, never both and never twice.  The       *)
(* broker of internal/runtime/pending.go is shown to implement this in        *)
(* PendingBroker.                                                             *)

CONSTANTS
    Requests,   \* prompts ever raised (one UUID each)
    Replies     \* what a requester can be told

VARIABLES
    status,     \* life of each prompt
    told        \* the replies each requester was given, oldest first

pvars == <<status, told>>

PInit ==
    /\ status = [r \in Requests |-> "none"]
    /\ told = [r \in Requests |-> << >>]

(* A requester raises its prompt. *)
Open(r) ==
    /\ status[r] = "none"
    /\ status' = [status EXCEPT ![r] = "open"]
    /\ UNCHANGED told

(* One listener takes the prompt to show it; nobody else can take it after.   *)
Claim(r) ==
    /\ status[r] = "open"
    /\ status' = [status EXCEPT ![r] = "claimed"]
    /\ UNCHANGED told

(* The requester is told one reply, and only after somebody was shown the     *)
(* prompt.                                                                    *)
Answer(r, v) ==
    /\ status[r] = "claimed"
    /\ status' = [status EXCEPT ![r] = "answered"]
    /\ told' = [told EXCEPT ![r] = <<v>>]

(* Prompts are withdrawn together when their task is dropped, singly when     *)
(* the requester's context ends.                                              *)
Withdraw(S) ==
    /\ S # {}
    /\ \A r \in S : status[r] \in {"open", "claimed"}
    /\ status' = [r \in Requests |-> IF r \in S THEN "withdrawn" ELSE status[r]]
    /\ UNCHANGED told

PNext ==
    \/ \E r \in Requests : Open(r)
    \/ \E r \in Requests : Claim(r)
    \/ \E r \in Requests, v \in Replies : Answer(r, v)
    \/ \E S \in SUBSET Requests : Withdraw(S)

PSpec == PInit /\ [][PNext]_pvars
=============================================================================
