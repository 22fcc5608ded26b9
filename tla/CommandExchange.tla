---------------------------- MODULE CommandExchange ----------------------------
(***************************************************************************)
(* What a connection promises to those who send commands over it: a call   *)
(* is accepted only while the connection works, returns only the VM's      *)
(* answer to that very call, fails only when the connection is broken, and *)
(* ends once.  A caller may give up at any time.  Nothing is said of ids,  *)
(* futures, buffers or tasks.                                              *)
(***************************************************************************)
CONSTANTS Calls, NoCall

VARIABLES accepting,  \* the connection works and accepts calls
          answers,    \* calls that the VM has answered
          status,     \* where each call is
          returned    \* the call whose answer was returned to a call

evars == <<accepting, answers, status, returned>>

ExchangeInit ==
  /\ accepting = TRUE
  /\ answers = {}
  /\ status = [c \in Calls |-> "new"]
  /\ returned = [c \in Calls |-> NoCall]

\* The call is sent.
Issue(c) ==
  /\ accepting
  /\ status[c] = "new"
  /\ status' = [status EXCEPT ![c] = "pending"]
  /\ UNCHANGED <<accepting, answers, returned>>

\* The call is turned down before anything is sent.
Reject(c) ==
  /\ status[c] = "new"
  /\ status' = [status EXCEPT ![c] = "rejected"]
  /\ UNCHANGED <<accepting, answers, returned>>

\* The VM answers a call it was sent, once; the caller may be gone by then.
Answer(c) ==
  /\ status[c] \notin {"new", "rejected"}
  /\ c \notin answers
  /\ answers' = answers \cup {c}
  /\ UNCHANGED <<accepting, status, returned>>

\* The call returns its own answer.
Return(c) ==
  /\ status[c] = "pending"
  /\ c \in answers
  /\ status' = [status EXCEPT ![c] = "returned"]
  /\ returned' = [returned EXCEPT ![c] = c]
  /\ UNCHANGED <<accepting, answers>>

Fail(c) ==
  /\ status[c] = "pending"
  /\ ~accepting
  /\ status' = [status EXCEPT ![c] = "failed"]
  /\ UNCHANGED <<accepting, answers, returned>>

Cancel(c) ==
  /\ status[c] = "pending"
  /\ status' = [status EXCEPT ![c] = "cancelled"]
  /\ UNCHANGED <<accepting, answers, returned>>

\* The connection is closed, lost or in error, for good.
Break ==
  /\ accepting
  /\ accepting' = FALSE
  /\ UNCHANGED <<answers, status, returned>>

ExchangeNext ==
  \/ \E c \in Calls :
       Issue(c) \/ Reject(c) \/ Answer(c) \/ Return(c) \/ Fail(c) \/ Cancel(c)
  \/ Break

ExchangeSpec == ExchangeInit /\ [][ExchangeNext]_evars
==============================================================================
