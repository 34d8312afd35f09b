----------------------------- MODULE CloudSend -----------------------------
(***************************************************************************)
(* Sending one message to the cloud (zedcloud/send.go): the loops over the  *)
(* management interfaces, free ones first, and over the source addresses of *)
(* an interface, as operators on the list of what each attempt meets. The   *)
(* message is a bytes.Buffer: the first request that gets a connection      *)
(* reads it to its end, so every later attempt posts an empty body.         *)
(***************************************************************************)
EXTENDS Naturals, Sequences, FiniteSetsExt

CONSTANTS
  Faults,    \* what an attempt may meet besides success, a subset of Fault
  MaxIntfs,  \* bound: management interfaces
  MaxAddrs   \* bound: source addresses of an interface

\* "dial": no connection; "lost": the request was written and no usable response
\* came; "400" and "other": an HTTP error status.
Fault == {"dial", "lost", "400", "other"}

ASSUME SendAssumption ==
  Faults \subseteq Fault /\ MaxIntfs \in Nat /\ MaxAddrs \in Nat

Attempt == Faults \cup {"ok"}
Response == {"400", "other", "ok"}

\* SendOnIntf goes through the addresses until one gets an HTTP response.
Made(attempts) ==
  LET answered == {i \in DOMAIN attempts : attempts[i] \in Response}
  IN  IF answered = {} THEN attempts ELSE SubSeq(attempts, 1, Min(answered))

SendOnIntf(attempts) ==
  LET made == Made(attempts)
  IN  IF made # <<>> /\ made[Len(made)] \in Response THEN made[Len(made)] ELSE "none"

\* The answer that ends SendOnAllIntf; any other goes on to the next interface.
Final(answer, return400) == answer = "ok" \/ (return400 /\ answer = "400")

\* The attempts made on each interface, in order, and the result for the caller.
SendOnAllIntf(intfs, return400) ==
  LET final == {j \in DOMAIN intfs : Final(SendOnIntf(intfs[j]), return400)}
      last  == IF final = {} THEN Len(intfs) ELSE Min(final)
  IN  [made   |-> [j \in 1..last |-> Made(intfs[j])],
       result |-> IF final = {} THEN "error" ELSE SendOnIntf(intfs[last])]

Connected(attempts) == {i \in DOMAIN attempts : attempts[i] # "dial"}

\* The attempt that carries the body, "none" if no attempt got a connection.
BodyAttempt(made) ==
  LET up == {j \in DOMAIN made : Connected(made[j]) # {}}
  IN  IF up = {} THEN "none" ELSE made[Min(up)][Min(Connected(made[Min(up)]))]

\* Every way a send can go: its result, and what the attempt with the body met.
SendOutcomes ==
  [return400 \in BOOLEAN |->
    LET addrs == UNION {[1..n -> Attempt] : n \in 0..MaxAddrs}
        calls == UNION {[1..n -> addrs] : n \in 0..MaxIntfs}
    IN  {LET o == SendOnAllIntf(intfs, return400)
         IN  [result |-> o.result, body |-> BodyAttempt(o.made)] : intfs \in calls}]

\* Whether the cloud can have taken the message in, given what the body met.
MayArrive(body) == CASE body = "ok"   -> {TRUE}
                     [] body = "lost" -> BOOLEAN
                     [] OTHER         -> {FALSE}
=============================================================================
