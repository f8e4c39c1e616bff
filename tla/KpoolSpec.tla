------------------------------ MODULE KpoolSpec ------------------------------
(***************************************************************************)
(* What the index-K cache promises its readers, whatever rings, blocks and *)
(* batches the write side uses: each request has an index that holds the   *)
(* complete pools of its committed tokens.  The index only grows while the *)
(* request is served, an entry never changes, and what a preempted request *)
(* leaves behind is found again, as it was, when the request resumes.      *)
(*                                                                         *)
(* A pool of the prompt holds exactly the prompt's keys.  A pool that      *)
(* decoding completes is the request's own too, up to the drafts that the  *)
(* write side let run over its unfinished keys (MayHold).                  *)
(***************************************************************************)
EXTENDS Integers

CONSTANTS
  Req,        (* requests                                                  *)
  KPool,      (* tokens per pool                                           *)
  NumSpec,    (* drafts a verify batch may hold                            *)
  MaxLen      (* longest request                                           *)

VARIABLES
  phase,      (* waiting, running or finished                              *)
  length,     (* committed tokens; of a waiting request, those it may keep *)
  prompt,     (* tokens to prefill before the request decodes              *)
  index       (* request -> its complete pools -> the keys compressed      *)

vars == <<phase, length, prompt, index>>

PoolEnd(j) == j * KPool + (KPool - 1)

(* The pools that end within the first n tokens.                           *)
Complete(n) == {j \in 0 .. (MaxLen \div KPool) - 1 : PoolEnd(j) < n}

(* Pool j of r, compressed from r's committed tokens and nothing else.     *)
OwnPool(r, j) == [o \in 0 .. KPool - 1 |-> <<r, j * KPool + o, TRUE>>]

(* The rejected drafts that may stand where the key at offset o of pool j  *)
(* should: some whole turns of a ring of KPool keys ahead, and at most     *)
(* NumSpec - 1 past the pool's end.  The key that completes a pool is read *)
(* as soon as it is written, so nothing takes its place.                   *)
Overruns(r, j, o) ==
  IF o = KPool - 1 THEN {}
  ELSE {<<r, p, FALSE>> : p \in {p \in PoolEnd(j) + 1 .. PoolEnd(j) + NumSpec - 1 :
                                   p % KPool = o}}

MayHold(r, j, f) ==
  /\ f = [o \in 0 .. KPool - 1 |-> f[o]]
  /\ \A o \in 0 .. KPool - 1 : f[o] = OwnPool(r, j)[o] \/ f[o] \in Overruns(r, j, o)

Restrict(f, S) == [j \in S |-> f[j]]

Init ==
  /\ phase = [r \in Req |-> "waiting"]
  /\ length = [r \in Req |-> 0]
  /\ prompt \in [Req -> 1 .. MaxLen]
  /\ index = [r \in Req |-> [j \in Complete(0) |-> OwnPool(r, j)]]

(* A request starts with the index of a prefix it kept.                    *)
Start(r) ==
  /\ phase[r] = "waiting"
  /\ phase' = [phase EXCEPT ![r] = "running"]
  /\ \E h \in 0 .. length[r] :
       /\ length' = [length EXCEPT ![r] = h]
       /\ index' = [index EXCEPT ![r] = Restrict(index[r], Complete(h))]
  /\ UNCHANGED prompt

(* Request r's index when it has committed n tokens: what it held stays,   *)
(* every pool completed since gets an entry.                               *)
Extended(r, n, f) ==
  /\ f = Restrict(f, Complete(n))
  /\ \A j \in Complete(n) :
       IF j \in Complete(length[r]) THEN f[j] = index[r][j]
       ELSE IF PoolEnd(j) < prompt[r] THEN f[j] = OwnPool(r, j)
       ELSE MayHold(r, j, f[j])

(* One pass commits tokens of running requests.                            *)
Extend ==
  /\ \A r \in Req : /\ length'[r] \in length[r] .. MaxLen
                    /\ phase[r] # "running" => length'[r] = length[r]
                    /\ Extended(r, length'[r], index'[r])
  /\ length' = [r \in Req |-> length'[r]]
  /\ index' = [r \in Req |-> index'[r]]
  /\ UNCHANGED <<phase, prompt>>

(* A request is preempted and keeps its index; the token it was about to   *)
(* compute may join the tokens to prefill.                                 *)
Preempted(r) ==
  /\ phase[r] = "running"
  /\ phase' = [phase EXCEPT ![r] = "waiting"]
  /\ \E n \in {prompt[r], length[r] + 1} : prompt' = [prompt EXCEPT ![r] = n]
  /\ UNCHANGED <<length, index>>

(* A request ends, and its index with it.                                  *)
Ended(r) ==
  /\ phase[r] = "running"
  /\ phase' = [phase EXCEPT ![r] = "finished"]
  /\ length' = [length EXCEPT ![r] = 0]
  /\ index' = [index EXCEPT ![r] = Restrict(index[r], Complete(0))]
  /\ UNCHANGED prompt

Next == Extend \/ \E r \in Req : Start(r) \/ Preempted(r) \/ Ended(r)

Spec == Init /\ [][Next]_vars
=============================================================================
