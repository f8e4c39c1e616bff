-------------------------- MODULE ClusterBootProofs ---------------------------
(* Proofs about ClusterBoot, for any images, revisions of the env files    *)
(* and numbers of boots, edits and polls.                                  *)
EXTENDS ClusterBoot, TLAPS

(* While start.sh runs it has begun a boot, reported nothing and has a     *)
(* poll left.                                                              *)
InBoot == pc # "idle" => boots \in 1 .. MaxBoots /\ polls < MaxPolls /\ result = "none"

(* The steps from which the worker may have this boot's container, those   *)
(* after the copy, and those after the pulls.                              *)
Late   == {"relaunch_worker", "check_worker", "launch_head", "poll"}
Copied == {"stop_old", "launch_worker"} \cup Late
Pulled == {"sync"} \cup Copied

(* No container is of a later boot, nor the worker's of one that has yet   *)
(* to launch it.                                                           *)
Older ==
  /\ \A n \in Node : box[n] # NoBox => box[n].boot <= boots
  /\ pc \notin Late /\ pc # "idle" /\ box["worker"] # NoBox => box["worker"].boot < boots

(* What the boot has by now of what it went past nothing for.              *)
Sourced  == pc # "idle" /\ "edit" \notin past => image = env["head"][file].image
SameCopy == pc \in Copied /\ "sync" \notin past /\ "edit" \notin past => env["worker"] = env["head"]
HasImage ==
  "pull" \notin past =>
    /\ pc = "pull_worker" => image \in local["head"]
    /\ pc \in Pulled /\ "skip" \notin past => \A n \in Node : image \in local[n]

(* A rank of this boot runs the contents its node has of the env file.     *)
WorkerRank ==
  pc \in Late =>
    /\ "launch" \notin past => Own("worker") /\ pc \in {"launch_head", "poll"}
    /\ Own("worker") =>
         /\ box["worker"].conf = env["worker"][file]
         /\ past \subseteq {"launch"} => box["worker"].image = image

HeadRank ==
  pc = "poll" =>
    /\ Own("head")
    /\ "edit" \notin past => box["head"].conf = env["head"][file]
    /\ past \subseteq {"launch"} => box["head"].image = image

Reached == Sourced /\ SameCopy /\ HasImage /\ WorkerRank /\ HeadRank

BootInv == TypeOK /\ InBoot /\ Older /\ Reached /\ OkRanksAgree

-----------------------------------------------------------------------------
LEMMA ChoiceFacts ==
  ASSUME TypeOK, NEW n \in Node, NEW c \in Conf, NEW x \in Choices(n, c)
  PROVE  /\ x[1] \in {c.image, Fallback} /\ x[2] \in SUBSET (Image \cup {Fallback})
         /\ local[n] \subseteq x[2]
         /\ c.image \in local[n] => x[1] = c.image
<1>1. local[n] \in SUBSET (Image \cup {Fallback}) /\ c.image \in Image
  BY DEF TypeOK, Conf
<1> QED BY <1>1 DEF Choices

(* A container launch-*.sh has started on node n with env file f.          *)
Fresh(b, n, f) ==
  /\ b # NoBox /\ b.boot = boots /\ b.file = f /\ b.conf = env[n][f]
  /\ env[n][f].image \in local[n] => b.image = env[n][f].image

(* launch-*.sh: the types of what it leaves, and its container.            *)
LaunchLeaves(n, f, ok) ==
  /\ local' \in [Node -> SUBSET (Image \cup {Fallback})]
  /\ overlay' \in [Node -> Image \cup {Fallback, NoImage}]
  /\ box' \in [Node -> Container \cup {NoBox}]
  /\ \A m \in Node : local[m] \subseteq local'[m]
  /\ \A m \in Node \ {n} : box'[m] = box[m]
  /\ box'[n] = box[n] \/ box'[n] = NoBox \/ Fresh(box'[n], n, f)
  /\ ok => Fresh(box'[n], n, f)

LEMMA LaunchFacts ==
  ASSUME TypeOK, boots \in 1 .. MaxBoots, NEW n \in Node, NEW f \in EnvFile,
         NEW ok \in BOOLEAN, Launch(n, f, ok)
  PROVE  LaunchLeaves(n, f, ok)
<1> USE DEF LaunchLeaves
<1>1. CASE ~ok /\ UNCHANGED <<local, overlay, box>>
  BY <1>1 DEF TypeOK
<1>2. ASSUME NEW x \in Choices(n, env[n][f]), NEW ov \in Overlays(n, x[1], x[2]),
             local' = [local EXCEPT ![n] = x[2]],
             overlay' = [overlay EXCEPT ![n] = ov],
             \/ ~ok /\ UNCHANGED box
             \/ \E b \in Boxes(n, f, x[1], x[2], ov) :
                  ok = (b # NoBox /\ b.up) /\ box' = [box EXCEPT ![n] = b]
      PROVE  LaunchLeaves(n, f, ok)
  <2>1. env[n][f] \in Conf /\ env[n][f].image \in Image
    BY DEF TypeOK, Conf
  <2>2. /\ x[1] \in {env[n][f].image, Fallback} /\ x[2] \in SUBSET (Image \cup {Fallback})
        /\ local[n] \subseteq x[2]
        /\ env[n][f].image \in local[n] => x[1] = env[n][f].image
    BY <2>1, ChoiceFacts
  <2>3. ov \in Image \cup {Fallback, NoImage}
    BY <2>1, <2>2 DEF TypeOK, Overlays
  <2>4. /\ local' \in [Node -> SUBSET (Image \cup {Fallback})]
        /\ overlay' \in [Node -> Image \cup {Fallback, NoImage}]
        /\ \A m \in Node : local[m] \subseteq local'[m]
    BY <1>2, <2>2, <2>3 DEF TypeOK
  <2>5. CASE ~ok /\ UNCHANGED box
    BY <2>4, <2>5 DEF TypeOK
  <2>6. ASSUME NEW b \in Boxes(n, f, x[1], x[2], ov),
               ok = (b # NoBox /\ b.up), box' = [box EXCEPT ![n] = b]
        PROVE  LaunchLeaves(n, f, ok)
    <3>1. b = NoBox \/ (b \in Container /\ Fresh(b, n, f))
      <4>1. CASE b # NoBox
        <5>1. PICK alive \in BOOLEAN :
                b = [boot |-> boots, file |-> f, conf |-> env[n][f], image |-> x[1],
                     overlay |-> ov, up |-> alive, joined |-> FALSE]
          BY <2>6, <4>1 DEF Boxes
        <5> QED BY <2>1, <2>2, <2>3, <4>1, <5>1 DEF Container, Fresh
      <4> QED BY <4>1
    <3>2. /\ box' \in [Node -> Container \cup {NoBox}]
          /\ box'[n] = b /\ \A m \in Node \ {n} : box'[m] = box[m]
      BY <2>6, <3>1 DEF TypeOK
    <3> QED BY <2>4, <2>6, <3>1, <3>2
  <2> QED BY <1>2, <2>5, <2>6
<1> QED BY <1>1, <1>2 DEF Launch

(* stop_conflicting leaves containers alone or removes them.               *)
LEMMA StopFacts ==
  ASSUME TypeOK, NEW ssh \in BOOLEAN, StopConflicting(ssh)
  PROVE  /\ box' \in [Node -> Container \cup {NoBox}]
         /\ \A n \in Node : box'[n] = box[n] \/ box'[n] = NoBox
BY DEF TypeOK, StopConflicting
-----------------------------------------------------------------------------
LEMMA InitBootInv == Init => BootInv
<1> SUFFICES ASSUME Init PROVE BootInv
  OBVIOUS
<1>1. PICK c \in Conf, d \in Conf :
        /\ env = [n \in Node |-> [f \in EnvFile |-> IF f = ".env" THEN c ELSE d]]
        /\ image = c.image
  BY DEF Init
<1>2. TypeOK
  <2>1. env \in [Node -> [EnvFile -> Conf]] /\ image \in Image
    BY <1>1 DEF Conf
  <2>2. /\ local \in [Node -> SUBSET (Image \cup {Fallback})]
        /\ overlay \in [Node -> Image \cup {Fallback, NoImage}]
        /\ box \in [Node -> Container \cup {NoBox}]
    BY DEF Init
  <2>3. boots \in 0 .. MaxBoots /\ edits \in 0 .. MaxEdits /\ polls \in 0 .. MaxPolls
    BY BootAssumption DEF Init
  <2> QED BY <2>1, <2>2, <2>3 DEF Init, TypeOK, EnvFile
<1>3. Older /\ Reached
  BY DEF Init, Older, Reached, Sourced, SameCopy, HasImage, WorkerRank, HeadRank,
         Late, Copied, Pulled, Node
<1> QED BY <1>2, <1>3 DEF Init, BootInv, InBoot, OkRanksAgree

LEMMA BeginKeeps ==
  ASSUME BootInv, NEW c \in {"start", "restart", "stop"}, NEW f \in EnvFile, Begin(c, f)
  PROVE  BootInv'
<1>1. pc' \in {"clean", "preflight", "stop"}
  BY DEF Begin, Goto
<1>2. boots' \in 1 .. MaxBoots /\ boots' = boots + 1 /\ polls' = 0 /\ 0 < MaxPolls
  BY BootAssumption DEF Begin, BootInv, TypeOK
<1>3. polls' \in 0 .. MaxPolls /\ boots' \in 0 .. MaxBoots
  BY <1>2, BootAssumption
<1>4. image' = env["head"][f].image /\ image' \in Image /\ file' = f /\ past' = {}
  BY DEF Begin, BootInv, TypeOK, Node, Conf
<1>5. TypeOK'
  BY <1>1, <1>3, <1>4 DEF Begin, BootInv, TypeOK
<1>6. \A n \in Node : box[n] # NoBox => box[n].boot \in Nat /\ box[n].boot < boots'
  <2> SUFFICES ASSUME NEW n \in Node, box[n] # NoBox
               PROVE  box[n].boot \in Nat /\ box[n].boot < boots'
    OBVIOUS
  <2>1. box[n] \in Container /\ box[n].boot <= boots /\ boots \in Nat /\ MaxBoots \in Nat
    BY BootAssumption DEF BootInv, Older, TypeOK
  <2>2. box[n].boot \in 1 .. MaxBoots
    BY <2>1 DEF Container
  <2> QED BY <1>2, <2>1, <2>2
<1>7. Older'
  BY <1>2, <1>6 DEF Begin, Older, Node
<1>8. Reached'
  BY <1>1, <1>4 DEF Begin, Reached, Sourced, SameCopy, HasImage, WorkerRank, HeadRank,
                    Late, Copied, Pulled
<1> QED BY <1>1, <1>2, <1>5, <1>7, <1>8 DEF Begin, BootInv, InBoot, OkRanksAgree

(* A step before the launches that removes containers or none, and does    *)
(* not itself finish the pulls or the copy.                                *)
LEMMA EarlyKeeps ==
  ASSUME BootInv, UNCHANGED <<env, file, image, boots>>, past \subseteq past',
         \A n \in Node : local[n] \subseteq local'[n],
         \A n \in Node : box'[n] = box[n] \/ box'[n] = NoBox,
         pc # "idle", pc \notin Late, pc' \notin Late,
         pc' = "pull_worker" => ("pull" \notin past' => image \in local'["head"]),
         pc' \in Copied => pc \in Copied, pc' \in Pulled => pc \in Pulled
  PROVE  Older' /\ Reached'
<1>1. Older'
  BY DEF BootInv, Older, Node
<1>2. Sourced' /\ SameCopy' /\ HasImage'
  BY DEF BootInv, Reached, Sourced, SameCopy, HasImage, Node
<1>3. WorkerRank' /\ HeadRank'
  BY DEF WorkerRank, HeadRank, Late
<1> QED BY <1>1, <1>2, <1>3 DEF Reached

LEMMA CleanKeeps == ASSUME BootInv, NEW ssh \in BOOLEAN, Clean(ssh) PROVE BootInv'
<1>1. TypeOK'
  BY StopFacts DEF Clean, Goto, fixed, BootInv, TypeOK
<1>2. Older' /\ Reached'
  BY StopFacts, EarlyKeeps DEF Clean, Goto, fixed, BootInv, Late, Copied, Pulled
<1> QED BY <1>1, <1>2 DEF Clean, Goto, fixed, BootInv, InBoot, OkRanksAgree

LEMMA StopKeeps == ASSUME BootInv, NEW ssh \in BOOLEAN, Stop(ssh) PROVE BootInv'
<1>1. TypeOK'
  BY StopFacts DEF Stop, End, fixed, BootInv, TypeOK
<1>2. Older' /\ Reached'
  BY StopFacts, EarlyKeeps DEF Stop, End, fixed, BootInv, Late, Copied, Pulled
<1> QED BY <1>1, <1>2 DEF Stop, End, fixed, BootInv, InBoot, OkRanksAgree

LEMMA PreflightKeeps ==
  ASSUME BootInv, NEW ok \in BOOLEAN, NEW skip \in BOOLEAN, Preflight(ok, skip) PROVE BootInv'
<1>1. /\ \/ pc' = "idle" /\ result' = "failed"
         \/ pc' \in {"sync", "pull_head"} /\ UNCHANGED result
      /\ pc' = "sync" => "skip" \in past'
      /\ past \subseteq past' /\ past' \subseteq past \cup {"skip"}
      /\ pc = "preflight" /\ UNCHANGED <<fixed, local, overlay, box, polls>>
  BY DEF Preflight, Goto, End, Passes
<1>2. TypeOK'
  BY <1>1 DEF fixed, BootInv, TypeOK, Past
<1>3. Older'
  BY <1>1 DEF fixed, BootInv, Older, Late
<1>4. Reached'
  BY <1>1 DEF fixed, BootInv, Reached, Sourced, SameCopy, HasImage, WorkerRank, HeadRank,
              Late, Copied, Pulled
<1> QED BY <1>1, <1>2, <1>3, <1>4 DEF fixed, BootInv, InBoot, OkRanksAgree

LEMMA PullHeadKeeps ==
  ASSUME BootInv, NEW got \in SUBSET (Image \cup {Fallback}), PullHead(got) PROVE BootInv'
<1>1. /\ local' \in [Node -> SUBSET (Image \cup {Fallback})]
      /\ \A n \in Node : local[n] \subseteq local'[n]
  BY DEF PullHead, BootInv, TypeOK
<1>2. /\ pc = "pull_head" /\ pc' = "pull_worker" /\ UNCHANGED <<fixed, overlay, box, polls, result>>
      /\ past' \subseteq past \cup {"pull"} /\ past \subseteq past'
      /\ "pull" \notin past' => image \in local'["head"]
  BY DEF PullHead, Goto, Passes
<1>3. TypeOK'
  BY <1>1, <1>2 DEF fixed, BootInv, TypeOK, Past
<1>4. Older' /\ Reached'
  BY <1>1, <1>2, EarlyKeeps DEF fixed, BootInv, Late, Copied, Pulled
<1> QED BY <1>2, <1>3, <1>4 DEF fixed, BootInv, InBoot, OkRanksAgree

LEMMA PullWorkerKeeps ==
  ASSUME BootInv, NEW ssh \in BOOLEAN, NEW got \in BOOLEAN, PullWorker(ssh, got) PROVE BootInv'
<1>1. image \in Image /\ local \in [Node -> SUBSET (Image \cup {Fallback})]
  BY DEF BootInv, TypeOK
<1>2. /\ local' \in [Node -> SUBSET (Image \cup {Fallback})]
      /\ \A n \in Node : local[n] \subseteq local'[n]
  BY <1>1 DEF PullWorker
<1>3. /\ pc = "pull_worker" /\ UNCHANGED <<fixed, overlay, box, polls>>
      /\ (pc' = "sync" /\ UNCHANGED result) \/ (pc' = "idle" /\ result' = "failed")
      /\ past' \subseteq past \cup {"pull"} /\ past \subseteq past'
      /\ "pull" \notin past' => image \in local'["worker"]
  BY DEF PullWorker, Goto, End, Passes
<1>4. TypeOK'
  BY <1>2, <1>3 DEF fixed, BootInv, TypeOK, Past
<1>5. Older'
  BY <1>3 DEF fixed, BootInv, Older, Late
<1>6. HasImage'
  BY <1>2, <1>3 DEF fixed, BootInv, Reached, HasImage, Node, Late, Copied, Pulled
<1>7. Reached'
  BY <1>3, <1>6 DEF fixed, BootInv, Reached, Sourced, SameCopy, WorkerRank, HeadRank,
                    Late, Copied
<1> QED BY <1>3, <1>4, <1>5, <1>7 DEF fixed, BootInv, InBoot, OkRanksAgree

LEMMA SyncKeeps == ASSUME BootInv, NEW ok \in BOOLEAN, Sync(ok) PROVE BootInv'
<1>1. env \in [Node -> [EnvFile -> Conf]]
  BY DEF BootInv, TypeOK
<1>2. env' \in [Node -> [EnvFile -> Conf]] /\ env'["head"] = env["head"]
      /\ (ok => env'["worker"] = env'["head"])
  BY <1>1 DEF Sync, Node
<1>3. /\ pc = "sync" /\ pc' = "stop_old"
      /\ UNCHANGED <<local, overlay, box, cmd, file, image, boots, edits, polls, result>>
      /\ past' \subseteq past \cup {"sync"} /\ past \subseteq past' /\ ("sync" \notin past' => ok)
  BY DEF Sync, Goto, Passes
<1>4. TypeOK'
  BY <1>2, <1>3 DEF BootInv, TypeOK, Past
<1>5. Older'
  BY <1>3 DEF BootInv, Older, Late
<1>6. Sourced' /\ SameCopy' /\ HasImage'
  BY <1>2, <1>3 DEF BootInv, Reached, Sourced, SameCopy, HasImage, Late, Copied, Pulled
<1>7. WorkerRank' /\ HeadRank'
  BY <1>3 DEF WorkerRank, HeadRank, Late
<1> QED BY <1>3, <1>4, <1>5, <1>6, <1>7 DEF BootInv, InBoot, Reached, OkRanksAgree

LEMMA StopOldKeeps == ASSUME BootInv, NEW ssh \in BOOLEAN, StopOld(ssh) PROVE BootInv'
<1>1. /\ box' \in [Node -> Container \cup {NoBox}]
      /\ \A n \in Node : box'[n] = box[n] \/ box'[n] = NoBox
  BY StopFacts DEF StopOld, BootInv, TypeOK
<1>2. TypeOK'
  BY <1>1 DEF StopOld, Goto, fixed, BootInv, TypeOK
<1>3. Older' /\ Reached'
  BY <1>1, EarlyKeeps DEF StopOld, Goto, fixed, BootInv, Late, Copied, Pulled
<1> QED BY <1>1, <1>2, <1>3 DEF StopOld, Goto, fixed, BootInv, InBoot, OkRanksAgree

(* A rank launched with the contents and the image start.sh has sourced.   *)
LEMMA FreshRuns ==
  ASSUME BootInv, pc \in Copied, past \subseteq {"launch"}, NEW n \in Node, NEW b, Fresh(b, n, file)
  PROVE  b.image = image
<1>1. /\ "edit" \notin past /\ "sync" \notin past /\ "skip" \notin past /\ "pull" \notin past
      /\ pc # "idle" /\ pc \in Pulled
  BY DEF Late, Copied, Pulled
<1>2. image = env["head"][file].image /\ env["worker"] = env["head"] /\ image \in local[n]
  BY <1>1 DEF BootInv, Reached, Sourced, SameCopy, HasImage
<1>3. env[n][file].image = image
  BY <1>2 DEF Node
<1> QED BY <1>2, <1>3 DEF Fresh

(* What launching a container on one node leaves of the other facts.       *)
LEMMA LaunchKeepsFacts ==
  ASSUME BootInv, NEW n \in Node, NEW f \in EnvFile, NEW ok \in BOOLEAN, LaunchLeaves(n, f, ok),
         UNCHANGED <<env, file, image, boots>>, past \subseteq past',
         pc \in Copied, pc' \in Late \cup {"idle"}
  PROVE  Older' /\ Sourced' /\ SameCopy' /\ HasImage'
<1>1. Older'
  <2>1. \A m \in Node : box'[m] # NoBox => box'[m].boot <= boots
    <3>1. boots \in Nat /\ \A m \in Node : box[m] # NoBox => box[m].boot <= boots
      BY BootAssumption DEF BootInv, TypeOK, Older
    <3> QED BY <3>1 DEF LaunchLeaves, Fresh
  <2> QED BY <2>1 DEF Older, Late
<1>2. Sourced' /\ SameCopy'
  BY DEF BootInv, Reached, Sourced, SameCopy, Late, Copied
<1>3. \A m \in Node : local[m] \subseteq local'[m]
  BY DEF LaunchLeaves
<1>4. pc \in Pulled /\ pc' # "pull_worker"
  BY DEF Late, Copied, Pulled
<1>5. HasImage'
  BY <1>3, <1>4 DEF BootInv, Reached, HasImage
<1> QED BY <1>1, <1>2, <1>5

LEMMA LaunchWorkerKeeps ==
  ASSUME BootInv, NEW ran \in BOOLEAN, NEW ok \in BOOLEAN, NEW seen \in BOOLEAN,
         LaunchWorker(ran, ok, seen)
  PROVE  BootInv'
<1>1. /\ pc = "launch_worker" /\ UNCHANGED <<fixed, polls, result>> /\ (seen => ran /\ ok)
      /\ pc' = IF seen THEN "launch_head" ELSE "relaunch_worker"
      /\ IF ran THEN Launch("worker", file, ok) ELSE UNCHANGED <<local, overlay, box>>
      /\ past' \subseteq past \cup {"launch"} /\ past \subseteq past'
      /\ "launch" \notin past' => seen
  BY DEF LaunchWorker, LaunchWorkerFrom, Goto, Passes
<1>2. TypeOK /\ boots \in 1 .. MaxBoots /\ file \in EnvFile /\ "worker" \in Node
  BY <1>1 DEF BootInv, InBoot, TypeOK, Node
<1>3. /\ local' \in [Node -> SUBSET (Image \cup {Fallback})]
      /\ overlay' \in [Node -> Image \cup {Fallback, NoImage}]
      /\ box' \in [Node -> Container \cup {NoBox}]
      /\ LaunchLeaves("worker", file, seen)
  <2>1. CASE ran
    <3>1. LaunchLeaves("worker", file, ok)
      BY <1>1, <1>2, <2>1, LaunchFacts
    <3> QED BY <1>1, <3>1 DEF LaunchLeaves
  <2>2. CASE ~ ran
    BY <1>1, <1>2, <2>2 DEF TypeOK, LaunchLeaves
  <2> QED BY <2>1, <2>2
<1>4. TypeOK'
  BY <1>1, <1>2, <1>3 DEF TypeOK, fixed, Past
<1>5. Older' /\ Sourced' /\ SameCopy' /\ HasImage'
  <2>1. pc \in Copied /\ pc' \in Late \cup {"idle"}
    BY <1>1 DEF Copied, Late
  <2> QED BY <1>1, <1>2, <1>3, <2>1, LaunchKeepsFacts DEF fixed
<1>6. box["worker"] # NoBox => box["worker"].boot < boots /\ box["worker"].boot \in Nat
  <2>1. box["worker"] # NoBox => box["worker"] \in Container
    BY <1>2 DEF TypeOK
  <2> QED BY <1>1, <1>2, <2>1 DEF BootInv, Older, Container, Late
<1>7. Own("worker")' => Fresh(box'["worker"], "worker", file)
  <2>1. CASE box'["worker"] = box["worker"]
    BY <1>1, <1>2, <1>6, <2>1 DEF Own, fixed
  <2> QED BY <1>3, <2>1 DEF LaunchLeaves, Own
<1>8. WorkerRank'
  <2>1. ASSUME "launch" \notin past' PROVE Own("worker")' /\ pc' = "launch_head"
    BY <1>1, <1>3, <2>1 DEF LaunchLeaves, Fresh, Own, fixed
  <2>2. ASSUME Own("worker")'
        PROVE  /\ box'["worker"].conf = env'["worker"][file']
               /\ past' \subseteq {"launch"} => box'["worker"].image = image'
    <3>1. pc \in Copied
      BY <1>1 DEF Copied
    <3>2. past' \subseteq {"launch"} => box'["worker"].image = image
      BY <1>1, <1>2, <1>7, <2>2, <3>1, FreshRuns
    <3> QED BY <1>1, <1>7, <2>2, <3>2 DEF Fresh, fixed
  <2> QED BY <2>1, <2>2 DEF WorkerRank
<1>9. HeadRank'
  BY <1>1 DEF HeadRank
<1> QED BY <1>1, <1>2, <1>4, <1>5, <1>8, <1>9
        DEF BootInv, InBoot, Reached, OkRanksAgree, fixed

LEMMA RelaunchWorkerKeeps ==
  ASSUME BootInv, NEW ran \in BOOLEAN, NEW ok \in BOOLEAN, RelaunchWorker(ran, ok)
  PROVE  BootInv'
<1>1. /\ pc = "relaunch_worker" /\ UNCHANGED <<fixed, polls, result, past>> /\ pc' = "check_worker"
      /\ IF ran THEN Launch("worker", ".env", ok) ELSE UNCHANGED <<local, overlay, box>>
  BY DEF RelaunchWorker, Goto
<1>2. TypeOK /\ boots \in 1 .. MaxBoots /\ ".env" \in EnvFile /\ "worker" \in Node
      /\ "launch" \in past /\ pc \in Copied /\ FALSE \in BOOLEAN
  BY <1>1 DEF BootInv, InBoot, Reached, WorkerRank, TypeOK, Node, EnvFile, Late, Copied
<1>3. /\ local' \in [Node -> SUBSET (Image \cup {Fallback})]
      /\ overlay' \in [Node -> Image \cup {Fallback, NoImage}]
      /\ box' \in [Node -> Container \cup {NoBox}]
      /\ LaunchLeaves("worker", ".env", FALSE)
  <2>1. CASE ran
    <3>1. LaunchLeaves("worker", ".env", ok)
      BY <1>1, <1>2, <2>1, LaunchFacts
    <3> QED BY <3>1 DEF LaunchLeaves
  <2>2. CASE ~ ran
    BY <1>1, <1>2, <2>2 DEF TypeOK, LaunchLeaves
  <2> QED BY <2>1, <2>2
<1>4. TypeOK'
  BY <1>1, <1>2, <1>3 DEF TypeOK, fixed
<1>5. Older' /\ Sourced' /\ SameCopy' /\ HasImage'
  <2>1. pc' \in Late \cup {"idle"}
    BY <1>1 DEF Late
  <2> QED BY <1>1, <1>2, <1>3, <2>1, LaunchKeepsFacts DEF fixed
<1>6. ASSUME Own("worker")'
      PROVE  /\ box'["worker"].conf = env["worker"][file]
             /\ past \subseteq {"launch"} => box'["worker"].image = image
  <2>1. CASE box'["worker"] = box["worker"]
    <3>1. Own("worker") /\ pc \in Late
      BY <1>1, <1>6, <2>1 DEF Own, fixed, Late
    <3> QED BY <2>1, <3>1 DEF BootInv, Reached, WorkerRank
  <2>2. CASE Fresh(box'["worker"], "worker", ".env")
    <3>1. file = ".env"
      BY <1>1, <1>6, <2>2 DEF Fresh, Own, fixed
    <3>2. past \subseteq {"launch"} => box'["worker"].image = image
      BY <1>2, <2>2, <3>1, FreshRuns
    <3> QED BY <2>2, <3>1, <3>2 DEF Fresh
  <2> QED BY <1>3, <1>6, <2>1, <2>2 DEF LaunchLeaves, Own
<1>7. WorkerRank' /\ HeadRank'
  BY <1>1, <1>2, <1>6 DEF WorkerRank, HeadRank, fixed
<1> QED BY <1>1, <1>4, <1>5, <1>7 DEF BootInv, InBoot, Reached, OkRanksAgree, fixed

LEMMA CheckWorkerKeeps == ASSUME BootInv, NEW ssh \in BOOLEAN, CheckWorker(ssh) PROVE BootInv'
<1>1. /\ pc = "check_worker" /\ UNCHANGED <<fixed, local, overlay, box, polls, past>>
      /\ (pc' = "launch_head" /\ UNCHANGED result) \/ (pc' = "idle" /\ result' = "failed")
  BY DEF CheckWorker, Goto, End
<1>2. "launch" \in past
  BY <1>1 DEF BootInv, Reached, WorkerRank, Late
<1>3. TypeOK'
  BY <1>1 DEF fixed, BootInv, TypeOK
<1>4. Older'
  BY <1>1 DEF fixed, BootInv, Older, Late
<1>5. Sourced' /\ SameCopy' /\ HasImage'
  BY <1>1 DEF fixed, BootInv, Reached, Sourced, SameCopy, HasImage, Late, Copied, Pulled
<1>6. WorkerRank' /\ HeadRank'
  BY <1>1, <1>2 DEF fixed, BootInv, Reached, WorkerRank, HeadRank, Own, Late
<1> QED BY <1>1, <1>3, <1>4, <1>5, <1>6 DEF fixed, BootInv, InBoot, Reached, OkRanksAgree

LEMMA LaunchHeadKeeps == ASSUME BootInv, NEW ok \in BOOLEAN, LaunchHead(ok) PROVE BootInv'
<1>1. /\ pc = "launch_head" /\ UNCHANGED <<fixed, polls, past>> /\ Launch("head", file, ok)
      /\ IF ok THEN pc' = "poll" /\ UNCHANGED result ELSE pc' = "idle" /\ result' = "failed"
  BY DEF LaunchHead, Goto, End
<1>2. TypeOK /\ boots \in 1 .. MaxBoots /\ file \in EnvFile /\ "head" \in Node /\ pc \in Copied
  BY <1>1 DEF BootInv, InBoot, TypeOK, Node, Copied, Late
<1>3. LaunchLeaves("head", file, ok)
  BY <1>1, <1>2, LaunchFacts
<1>4. TypeOK'
  BY <1>1, <1>2, <1>3 DEF TypeOK, fixed, LaunchLeaves
<1>5. Older' /\ Sourced' /\ SameCopy' /\ HasImage'
  <2>1. pc' \in Late \cup {"idle"}
    BY <1>1 DEF Late
  <2> QED BY <1>1, <1>2, <1>3, <2>1, LaunchKeepsFacts DEF fixed
<1>6. WorkerRank'
  <2>1. box'["worker"] = box["worker"]
    BY <1>3 DEF LaunchLeaves, Node
  <2> QED BY <1>1, <2>1 DEF BootInv, Reached, WorkerRank, Own, fixed, Late
<1>7. HeadRank'
  <2>1. ASSUME pc' = "poll" PROVE Fresh(box'["head"], "head", file)
    BY <1>1, <1>3, <2>1 DEF LaunchLeaves
  <2>2. ASSUME pc' = "poll", past \subseteq {"launch"} PROVE box'["head"].image = image
    BY <1>2, <2>1, <2>2, FreshRuns
  <2> QED BY <1>1, <2>1, <2>2 DEF HeadRank, Own, Fresh, fixed
<1> QED BY <1>1, <1>4, <1>5, <1>6, <1>7 DEF BootInv, InBoot, Reached, OkRanksAgree, fixed

LEMMA HealthyKeeps == ASSUME BootInv, Healthy PROVE BootInv'
<1>1. /\ pc = "poll" /\ pc' = "idle" /\ result' = "ok" /\ UNCHANGED <<fixed, local, overlay, polls, past>>
      /\ \A n \in Node : box[n] # NoBox
      /\ box' = [n \in Node |-> [box[n] EXCEPT !.joined = TRUE]]
  BY DEF Healthy, CanServe, Up, End
<1>2. \A n \in Node : box[n] \in Container /\ box'[n] \in Container
                      /\ box'[n].boot = box[n].boot /\ box'[n].file = box[n].file
                      /\ box'[n].conf = box[n].conf /\ box'[n].image = box[n].image
  BY <1>1 DEF BootInv, TypeOK, Container
<1>3. TypeOK'
  BY <1>1, <1>2 DEF BootInv, TypeOK, fixed
<1>4. \A n \in Node : Own(n)' <=> Own(n)
  BY <1>1, <1>2, NoBoxAssumption DEF Own, fixed
<1>5. Older'
  BY <1>1, <1>2 DEF BootInv, Older, fixed
<1>6. Reached'
  BY <1>1 DEF Reached, Sourced, SameCopy, HasImage, WorkerRank, HeadRank, Late, Copied, Pulled
<1>7. OkRanksAgree'
  <2>1. "head" \in Node /\ "worker" \in Node /\ Node = {"head", "worker"}
    BY DEF Node
  <2>2. Own("head")' /\ ("launch" \notin past' => Own("worker")')
    BY <1>1, <1>4, <2>1 DEF BootInv, Reached, WorkerRank, HeadRank, Late, fixed
  <2>3. ASSUME Own("worker")', past' \cap {"sync", "edit"} = {}
        PROVE  /\ box'["worker"].conf = box'["head"].conf
               /\ past' \cap {"skip", "pull"} = {} => \A n \in Node : box'[n].image = image'
    <3>1. Own("worker") /\ "sync" \notin past /\ "edit" \notin past /\ pc \in Late /\ pc \in Copied
      BY <1>1, <1>4, <2>1, <2>3 DEF Late, Copied
    <3>2. box["worker"].conf = env["worker"][file] /\ box["head"].conf = env["head"][file]
          /\ env["worker"] = env["head"]
      BY <1>1, <3>1 DEF BootInv, Reached, SameCopy, WorkerRank, HeadRank
    <3>3. ASSUME past' \cap {"skip", "pull"} = {} PROVE \A n \in Node : box'[n].image = image'
      <4>1. past \subseteq {"launch"}
        BY <1>1, <3>1, <3>3 DEF BootInv, TypeOK, Past
      <4> QED BY <1>1, <1>2, <2>1, <3>1, <4>1 DEF BootInv, Reached, WorkerRank, HeadRank, fixed
    <3> QED BY <1>2, <2>1, <3>2, <3>3
  <2> QED BY <2>2, <2>3 DEF OkRanksAgree
<1> QED BY <1>1, <1>3, <1>5, <1>6, <1>7 DEF BootInv, InBoot

LEMMA NotYetKeeps == ASSUME BootInv, NotYet PROVE BootInv'
<1>1. /\ pc = "poll" /\ polls' = polls + 1 /\ UNCHANGED <<fixed, local, overlay, box, past>>
      /\ \/ pc' = "idle" /\ result' = "failed"
         \/ polls + 1 < MaxPolls /\ UNCHANGED <<pc, result>>
  <2>1. polls \in Nat /\ MaxPolls \in Nat
    BY BootAssumption DEF BootInv, TypeOK
  <2> QED BY <2>1 DEF NotYet, Poll, End
<1>2. polls' \in 0 .. MaxPolls
  BY <1>1, BootAssumption DEF BootInv, InBoot, TypeOK
<1>3. TypeOK'
  BY <1>1, <1>2 DEF BootInv, TypeOK, fixed
<1>4. Older'
  BY <1>1 DEF BootInv, Older, fixed, Late
<1>5. Sourced' /\ SameCopy' /\ HasImage'
  BY <1>1 DEF BootInv, Reached, Sourced, SameCopy, HasImage, fixed, Late, Copied, Pulled
<1>6. WorkerRank' /\ HeadRank'
  BY <1>1 DEF BootInv, Reached, WorkerRank, HeadRank, Own, fixed, Late
<1> QED BY <1>1, <1>2, <1>3, <1>4, <1>5, <1>6 DEF BootInv, InBoot, Reached, OkRanksAgree, fixed

LEMMA EditKeeps == ASSUME BootInv, NEW c \in Conf, Edit(c) PROVE BootInv'
<1>1. /\ UNCHANGED <<local, overlay, box, pc, cmd, file, image, boots, polls, result>>
      /\ past' \subseteq past \cup {"edit"} /\ past \subseteq past'
      /\ pc # "idle" => "edit" \in past'
      /\ pc = "idle" => past' = past
  BY DEF Edit, Passes
<1>2. env' \in [Node -> [EnvFile -> Conf]] /\ env'["worker"] = env["worker"]
  BY DEF Edit, BootInv, TypeOK, Node, EnvFile
<1>3. TypeOK'
  <2>1. edits' \in 0 .. MaxEdits
    BY BootAssumption DEF Edit, BootInv, TypeOK
  <2> QED BY <1>1, <1>2, <2>1 DEF BootInv, TypeOK, Past
<1>4. Older'
  BY <1>1 DEF BootInv, Older
<1>5. Sourced' /\ SameCopy' /\ HasImage'
  BY <1>1 DEF BootInv, Reached, Sourced, SameCopy, HasImage, Late, Copied, Pulled
<1>6. WorkerRank' /\ HeadRank'
  BY <1>1, <1>2 DEF BootInv, Reached, WorkerRank, HeadRank, Own, Late
<1>7. OkRanksAgree'
  BY <1>1 DEF BootInv, InBoot, OkRanksAgree, Own
<1> QED BY <1>1, <1>3, <1>4, <1>5, <1>6, <1>7 DEF BootInv, InBoot, Reached

(* A container that dies stays what it was.                                *)
LEMMA DiesKeeps == ASSUME BootInv, NEW n \in Node, Dies(n) PROVE BootInv'
<1>1. /\ UNCHANGED <<fixed, local, overlay, pc, polls, result, past>> /\ box[n] # NoBox
      /\ box' = [box EXCEPT ![n].up = FALSE]
  BY DEF Dies, Up
<1>2. box \in [Node -> Container \cup {NoBox}] /\ box[n] \in Container
  BY <1>1 DEF BootInv, TypeOK
<1>3. /\ box'[n] \in Container
      /\ box'[n].boot = box[n].boot /\ box'[n].file = box[n].file
      /\ box'[n].conf = box[n].conf /\ box'[n].image = box[n].image
      /\ \A m \in Node \ {n} : box'[m] = box[m]
      /\ box' = [m \in Node |-> box'[m]]
  BY <1>1, <1>2 DEF Container
<1>4. TypeOK'
  BY <1>1, <1>2, <1>3 DEF BootInv, TypeOK, fixed
<1>5. \A m \in Node : /\ box[m] # NoBox <=> box'[m] # NoBox
                      /\ box'[m].boot = box[m].boot /\ box'[m].file = box[m].file
                      /\ box'[m].conf = box[m].conf /\ box'[m].image = box[m].image
  BY <1>1, <1>3, NoBoxAssumption
<1>6. "head" \in Node /\ "worker" \in Node /\ \A m \in Node : Own(m)' <=> Own(m)
  BY <1>1, <1>5 DEF Own, fixed, Node
<1>7. Older'
  BY <1>1, <1>5, <1>6 DEF BootInv, Older, fixed
<1>8. Sourced' /\ SameCopy' /\ HasImage'
  BY <1>1 DEF BootInv, Reached, Sourced, SameCopy, HasImage, fixed
<1>9. WorkerRank' /\ HeadRank'
  BY <1>1, <1>5, <1>6 DEF BootInv, Reached, WorkerRank, HeadRank, fixed
<1>10. OkRanksAgree'
  BY <1>1, <1>5, <1>6 DEF BootInv, OkRanksAgree, fixed
<1> QED BY <1>1, <1>4, <1>7, <1>8, <1>9, <1>10 DEF BootInv, InBoot, Reached, fixed

LEMMA NextBootInv == BootInv /\ [Next]_vars => BootInv'
<1> SUFFICES ASSUME BootInv, [Next]_vars PROVE BootInv'
  OBVIOUS
<1>1. CASE UNCHANGED vars
  BY <1>1 DEF vars, BootInv, TypeOK, InBoot, Older, Reached, Sourced, SameCopy, HasImage,
              WorkerRank, HeadRank, Own, OkRanksAgree
<1>2. CASE Script
  BY <1>2, CleanKeeps, StopKeeps, StopOldKeeps, CheckWorkerKeeps, PreflightKeeps, SyncKeeps,
     LaunchHeadKeeps, PullHeadKeeps, PullWorkerKeeps, LaunchWorkerKeeps, RelaunchWorkerKeeps,
     HealthyKeeps, NotYetKeeps DEF Script
<1> QED BY <1>1, <1>2, BeginKeeps, EditKeeps, DiesKeeps DEF Next
-----------------------------------------------------------------------------
(* Type correctness of start.sh, launch-*.sh and what nodes keep, through  *)
(* any number of boots and edits.                                          *)
THEOREM BootTypeOK == Spec => []TypeOK
<1>1. BootInv => TypeOK
  BY DEF BootInv
<1> QED BY InitBootInv, NextBootInv, <1>1, PTL DEF Spec

(* However many boots, edits and failures there have been, what a boot     *)
(* that reports OK has gone past costs it no more than that step's own     *)
(* agreement between the two ranks (start.sh, launch-*.sh).                *)
THEOREM OkBootsAgree == Spec => []OkRanksAgree
<1>1. BootInv => OkRanksAgree
  BY DEF BootInv
<1> QED BY InitBootInv, NextBootInv, <1>1, PTL DEF Spec
-----------------------------------------------------------------------------
(* How far a boot is from its report: the steps of start.sh ahead of it,   *)
(* each before the polls.                                                  *)
Ahead ==
  [clean |-> 9, preflight |-> 8, pull_head |-> 7, pull_worker |-> 6, sync |-> 5, stop_old |-> 4,
   launch_worker |-> 3, relaunch_worker |-> 2, check_worker |-> 1, launch_head |-> 0, stop |-> 0]

StepsLeft ==
  CASE pc = "idle" -> 0
    [] pc = "poll" -> MaxPolls - polls
    [] OTHER -> MaxPolls + 1 + Ahead[pc]

(* A step of start.sh ends the boot, goes on to a later step, or polls.    *)
LEMMA ScriptGoesOn ==
  ASSUME BootInv, Script
  PROVE  /\ pc # "idle"
         /\ \/ pc' = "idle"
            \/ pc # "poll" /\ pc' = "poll" /\ polls' = polls
            \/ pc # "poll" /\ pc' \in DOMAIN Ahead /\ Ahead[pc'] < Ahead[pc]
            \/ pc = "poll" /\ pc' = "poll" /\ polls' = polls + 1 /\ polls' < MaxPolls
<1> USE DEF Ahead, Goto, End
<1> DEFINE Goes == /\ pc # "idle"
                   /\ \/ pc' = "idle"
                      \/ pc # "poll" /\ pc' = "poll" /\ polls' = polls
                      \/ pc # "poll" /\ pc' \in DOMAIN Ahead /\ Ahead[pc'] < Ahead[pc]
                      \/ pc = "poll" /\ pc' = "poll" /\ polls' = polls + 1 /\ polls' < MaxPolls
<1>1. ASSUME NEW ssh \in BOOLEAN, Clean(ssh) \/ Stop(ssh) \/ StopOld(ssh) \/ CheckWorker(ssh)
      PROVE  Goes
  BY <1>1 DEF Clean, Stop, StopOld, CheckWorker
<1>9. ASSUME NEW ok \in BOOLEAN, NEW skip \in BOOLEAN, Preflight(ok, skip)
      PROVE  Goes
  BY <1>9 DEF Preflight
<1>2. ASSUME NEW ok \in BOOLEAN, Sync(ok) \/ LaunchHead(ok)
      PROVE  Goes
  <2>2. CASE Sync(ok)
    <3>1. pc = "sync" /\ pc' = "stop_old"
      BY <2>2 DEF Sync
    <3> QED BY <3>1
  <2>3. CASE LaunchHead(ok)
    <3>1. pc = "launch_head" /\ pc' \in {"poll", "idle"} /\ polls' = polls
      BY <2>3 DEF LaunchHead, fixed
    <3> QED BY <3>1
  <2> QED BY <1>2, <2>2, <2>3
<1>3. ASSUME NEW got, PullHead(got)
      PROVE  Goes
  BY <1>3 DEF PullHead
<1>4. ASSUME NEW ssh \in BOOLEAN, NEW got \in BOOLEAN, PullWorker(ssh, got)
      PROVE  Goes
  BY <1>4 DEF PullWorker
<1>5. ASSUME NEW ran \in BOOLEAN, NEW ok \in BOOLEAN, NEW seen \in BOOLEAN,
             LaunchWorker(ran, ok, seen)
      PROVE  Goes
  <2>1. pc = "launch_worker" /\ pc' \in {"launch_head", "relaunch_worker"}
    BY <1>5 DEF LaunchWorker, LaunchWorkerFrom
  <2> QED BY <2>1
<1>6. ASSUME NEW ran \in BOOLEAN, NEW ok \in BOOLEAN, RelaunchWorker(ran, ok)
      PROVE  Goes
  <2>1. pc = "relaunch_worker" /\ pc' = "check_worker"
    BY <1>6 DEF RelaunchWorker
  <2> QED BY <2>1
<1>7. CASE Healthy
  BY <1>7 DEF Healthy
<1>8. CASE NotYet
  <2>1. polls \in Nat /\ MaxPolls \in Nat
    BY BootAssumption DEF BootInv, TypeOK
  <2> QED BY <1>8, <2>1 DEF NotYet, Poll
<1> QED BY <1>1, <1>2, <1>3, <1>4, <1>5, <1>6, <1>7, <1>8, <1>9 DEF Script

LEMMA ScriptShortens ==
  ASSUME BootInv, Script
  PROVE  StepsLeft' \in Nat /\ StepsLeft' < StepsLeft
<1>1. /\ MaxPolls \in Nat \ {0} /\ polls \in Nat /\ (pc # "idle" => polls < MaxPolls)
      /\ pc \in DOMAIN Ahead \cup {"idle", "poll"}
  BY BootAssumption DEF BootInv, InBoot, TypeOK, Ahead
<1>2. \A p \in DOMAIN Ahead : Ahead[p] \in Nat /\ p # "idle" /\ p # "poll"
  BY DEF Ahead
<1> QED BY <1>1, <1>2, ScriptGoesOn DEF StepsLeft

(* No boot runs for ever: every step of a running start.sh brings it       *)
(* nearer to its report, and a container that dies or an edit of .env      *)
(* meanwhile does not set it back (start.sh).                              *)
EachStepShortens ==
  pc # "idle" =>
    \/ StepsLeft' \in Nat /\ StepsLeft' < StepsLeft
    \/ /\ UNCHANGED <<pc, polls, StepsLeft>>
       /\ (\E n \in Node : Dies(n)) \/ (\E c \in Conf : Edit(c))

THEOREM BootsGetNearer == Spec => [][EachStepShortens]_vars
<1>1. ASSUME BootInv, [Next]_vars PROVE [EachStepShortens]_vars
  <2>1. CASE Script
    BY <1>1, <2>1, ScriptShortens DEF EachStepShortens
  <2>2. ASSUME NEW n \in Node, Dies(n) PROVE EachStepShortens
    <3>1. UNCHANGED <<pc, polls>>
      BY <2>2 DEF Dies
    <3> QED BY <2>2, <3>1 DEF EachStepShortens, StepsLeft
  <2>3. CASE \E c \in {"start", "restart", "stop"}, f \in EnvFile : Begin(c, f)
    BY <2>3 DEF Begin, EachStepShortens
  <2>4. CASE \E c \in Conf : Edit(c)
    <3>1. UNCHANGED <<pc, polls>>
      BY <2>4 DEF Edit
    <3> QED BY <2>4, <3>1 DEF EachStepShortens, StepsLeft
  <2> QED BY <1>1, <2>1, <2>2, <2>3, <2>4 DEF Next
<1> QED BY InitBootInv, NextBootInv, <1>1, PTL DEF Spec
=============================================================================
