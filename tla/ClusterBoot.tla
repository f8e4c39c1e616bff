------------------------------ MODULE ClusterBoot ------------------------------
(***************************************************************************)
(* start.sh and launch-glm53-w4a16-tp2-dflash2.sh: booting one tensor-     *)
(* parallel server on two nodes.  start.sh runs on the head: it pulls the  *)
(* image on both nodes, copies the checkout (the env files with it) to the *)
(* worker, launches the worker's container over ssh, then the head's, and  *)
(* polls the head's /health.  launch-*.sh runs on either node: it picks an *)
(* image the node has, mounts a coordinator overlay it generates from the  *)
(* image once and keeps, replaces the node's container and looks at it two *)
(* seconds later.                                                          *)
(*                                                                         *)
(* Any ssh call, pull, launch or container may fail at any time, and the   *)
(* operator may edit .env at any time.  An env file is abstracted to the   *)
(* image it names and a revision of everything else in it.  SKIP_SYNC is a *)
(* boot whose copy does nothing.                                           *)
(***************************************************************************)
EXTENDS Integers, FiniteSets

CONSTANTS
  Image,      (* images an env file may name                               *)
  Fallback,   (* IMAGE_FALLBACK                                            *)
  NoImage,
  Revision,   (* revisions of the rest of an env file                      *)
  NoBox,      (* no container                                              *)
  MaxBoots,   (* bound: commands given to start.sh                         *)
  MaxEdits,   (* bound: operator edits                                     *)
  MaxPolls    (* READY_TIMEOUT, counted in polls                           *)

ASSUME BootAssumption ==
  /\ Fallback \notin Image /\ NoImage \notin Image \cup {Fallback}
  /\ MaxBoots \in Nat /\ MaxEdits \in Nat /\ MaxPolls \in Nat \ {0}

Node    == {"head", "worker"}
EnvFile == {".env", ".env.base"}
Conf    == [image : Image, rev : Revision]

VARIABLES
  env,      (* node -> env file -> contents; the worker's is a synced copy *)
  local,    (* node -> images it has                                       *)
  overlay,  (* node -> image its coordinator.patched.py was made from      *)
  box,      (* node -> its container                                       *)
  pc,       (* what start.sh does next, "idle" when it is not running      *)
  cmd,      (* the command start.sh was given                              *)
  file,     (* ENV_FILE of the boot                                        *)
  image,    (* the IMAGE start.sh sourced from it                          *)
  boots, edits, polls,
  result,   (* what the last boot reported                                 *)
  past      (* ghost: what the boot went on past                           *)

vars == <<env, local, overlay, box, pc, cmd, file, image, boots, edits, polls, result, past>>
fixed == <<env, cmd, file, image, boots, edits>>

(* The pull was skipped or did not bring the image; the copy failed; the   *)
(* worker's launch was not seen to succeed; .env was edited meanwhile.     *)
Past == {"skip", "pull", "sync", "launch", "edit"}

Container == [boot : 1 .. MaxBoots, file : EnvFile, conf : Conf, image : Image \cup {Fallback},
              overlay : Image \cup {Fallback, NoImage}, up : BOOLEAN, joined : BOOLEAN]

ASSUME NoBoxAssumption == NoBox \notin Container

Up(n)   == box[n] # NoBox /\ box[n].up
Goto(l) == pc' = l

End(r)  == pc' = "idle" /\ result' = r

(* What the boot has gone past, should the step have failed.               *)
Passes(what, failed) == past' = past \cup IF failed THEN {what} ELSE {}
-----------------------------------------------------------------------------
(* launch-*.sh on node n with env file f.                                  *)

(* The image it settles on, and the images the node has then.              *)
Choices(n, c) ==
  IF c.image \in local[n] THEN {<<c.image, local[n]>>}
  ELSE {<<c.image, local[n] \cup {c.image}>>, <<Fallback, local[n] \cup {Fallback}>>}
       \cup {<<IF Fallback \in local[n] THEN Fallback ELSE c.image, local[n]>>}

(* The overlay is made once; where that fails the stock file is used.      *)
Overlays(n, img, has) ==
  IF overlay[n] # NoImage THEN {overlay[n]}
  ELSE {NoImage} \cup ({img} \cap has)

(* The container it leaves, or NoBox where docker run fails.               *)
Boxes(n, f, img, has, ov) ==
  IF img \notin has THEN {NoBox}
  ELSE {NoBox} \cup
       {[boot |-> boots, file |-> f, conf |-> env[n][f], image |-> img, overlay |-> ov,
         up |-> alive, joined |-> FALSE] : alive \in BOOLEAN}

(* ok is its exit status.  The preflight fails before anything is touched, *)
(* a failing sparse MLA overlay (exit 3) when the image and the            *)
(* coordinator overlay are settled and the old container is still there.   *)
Launch(n, f, ok) ==
  \/ ~ok /\ UNCHANGED <<local, overlay, box>>
  \/ \E x \in Choices(n, env[n][f]) : \E ov \in Overlays(n, x[1], x[2]) :
       /\ local' = [local EXCEPT ![n] = x[2]]
       /\ overlay' = [overlay EXCEPT ![n] = ov]
       /\ \/ ~ok /\ UNCHANGED box
          \/ \E b \in Boxes(n, f, x[1], x[2], ov) :
               ok = (b # NoBox /\ b.up) /\ box' = [box EXCEPT ![n] = b]

-----------------------------------------------------------------------------
(* start.sh.  An action takes the outcome of its ssh call or pull.         *)

Begin(c, f) ==
  /\ pc = "idle" /\ boots < MaxBoots
  /\ Goto(CASE c = "restart" -> "clean" [] c = "start" -> "preflight" [] c = "stop" -> "stop")
  /\ cmd' = c /\ file' = f /\ image' = env["head"][f].image
  /\ boots' = boots + 1 /\ polls' = 0
  /\ result' = "none" /\ past' = {}
  /\ UNCHANGED <<env, local, overlay, box, edits>>

(* stop_conflicting: an unreachable worker keeps its container.            *)
StopConflicting(ssh) ==
  box' = [n \in Node |-> IF n = "worker" /\ ~ssh THEN box[n] ELSE NoBox]

Clean(ssh) ==
  /\ pc = "clean" /\ StopConflicting(ssh) /\ Goto("preflight")
  /\ UNCHANGED <<fixed, local, overlay, polls, result, past>>

Stop(ssh) ==
  /\ pc = "stop" /\ StopConflicting(ssh) /\ End("stopped")
  /\ UNCHANGED <<fixed, local, overlay, polls, past>>

(* SKIP_PULL=1 goes on to the copy at once.                                *)
Preflight(ok, skip) ==
  /\ pc = "preflight"
  /\ IF ok THEN Goto(IF skip THEN "sync" ELSE "pull_head") /\ UNCHANGED result ELSE End("failed")
  /\ Passes("skip", skip)
  /\ UNCHANGED <<fixed, local, overlay, box, polls>>

PullHead(got) ==
  /\ pc = "pull_head"
  /\ got \in {{image}, {Fallback}, {}}
  /\ local' = [local EXCEPT !["head"] = @ \cup got]
  /\ Passes("pull", image \notin local'["head"])
  /\ Goto("pull_worker")
  /\ UNCHANGED <<fixed, overlay, box, polls, result>>

(* The worker's pipeline ends in tail, so a failed pull reads as success;  *)
(* only a failing ssh makes the head ship its own copy, and a failed ship  *)
(* ends the script.                                                        *)
PullWorker(ssh, got) ==
  /\ pc = "pull_worker"
  /\ IF ssh \/ (got /\ image \in local["head"]) THEN Goto("sync") /\ UNCHANGED result
                                               ELSE End("failed")
  /\ local' = [local EXCEPT !["worker"] = IF got /\ (ssh \/ image \in local["head"])
                                         THEN @ \cup {image} ELSE @]
  /\ Passes("pull", image \notin local'["worker"])
  /\ UNCHANGED <<fixed, overlay, box, polls>>

(* rsync of the checkout, env files included; a failure is a warning.      *)
Sync(ok) ==
  /\ pc = "sync"
  /\ env' = IF ok THEN [env EXCEPT !["worker"] = env["head"]] ELSE env
  /\ Passes("sync", ~ok)
  /\ Goto("stop_old")
  /\ UNCHANGED <<local, overlay, box, cmd, file, image, boots, edits, polls, result>>

(* Only for "start": a restart has cleaned before its preflight.           *)
StopOld(ssh) ==
  /\ pc = "stop_old"
  /\ IF cmd = "start" THEN StopConflicting(ssh) ELSE UNCHANGED box
  /\ Goto("launch_worker")
  /\ UNCHANGED <<fixed, local, overlay, polls, result, past>>

(* The worker's script runs unless ssh fails first; ssh may also fail      *)
(* after it has run.                                                       *)
LaunchWorkerFrom(f, ran, ok, seen) ==
  /\ pc = "launch_worker"
  /\ seen => ran /\ ok
  /\ IF ran THEN Launch("worker", f, ok) ELSE UNCHANGED <<local, overlay, box>>
  /\ Passes("launch", ~seen)
  /\ Goto(IF seen THEN "launch_head" ELSE "relaunch_worker")
  /\ UNCHANGED <<fixed, polls, result>>

(* mutant: the worker is launched without ENV_FILE.                        *)
LaunchWorkerDefaultEnv(ran, ok, seen) == LaunchWorkerFrom(".env", ran, ok, seen)

LaunchWorker(ran, ok, seen) == LaunchWorkerFrom(file, ran, ok, seen)

(* The fallback does not pass ENV_FILE on, and its outcome is ignored.     *)
RelaunchWorker(ran, ok) ==
  /\ pc = "relaunch_worker"
  /\ IF ran THEN Launch("worker", ".env", ok) ELSE UNCHANGED <<local, overlay, box>>
  /\ Goto("check_worker")
  /\ UNCHANGED <<fixed, polls, result, past>>

CheckWorker(ssh) ==
  /\ pc = "check_worker"
  /\ IF ssh /\ Up("worker") THEN Goto("launch_head") /\ UNCHANGED result ELSE End("failed")
  /\ UNCHANGED <<fixed, local, overlay, box, polls, past>>

LaunchHead(ok) ==
  /\ pc = "launch_head"
  /\ Launch("head", file, ok)
  /\ IF ok THEN Goto("poll") /\ UNCHANGED result ELSE End("failed")
  /\ UNCHANGED <<fixed, polls, past>>

(* vLLM answers /health once both ranks have met; a rank that has already  *)
(* served a head cannot meet another.                                      *)
CanServe == \A n \in Node : Up(n) /\ ~box[n].joined

Healthy ==
  /\ pc = "poll" /\ CanServe
  /\ box' = [n \in Node |-> [box[n] EXCEPT !.joined = TRUE]]
  /\ End("ok")
  /\ UNCHANGED <<fixed, local, overlay, polls, past>>

Poll(gives_up) ==
  /\ pc = "poll"
  /\ IF ~Up("head") \/ gives_up THEN End("failed") ELSE UNCHANGED <<pc, result>>
  /\ UNCHANGED <<fixed, local, overlay, box, past>>

(* mutants: the timeout is never looked at; it is looked at one poll late. *)
NotYetUntimed == Poll(FALSE) /\ polls' = IF polls < MaxPolls THEN polls + 1 ELSE polls
NotYetLate == Poll(polls >= MaxPolls) /\ polls' = polls + 1

NotYet == Poll(polls + 1 >= MaxPolls) /\ polls' = polls + 1

-----------------------------------------------------------------------------
Init ==
  /\ \E c, d \in Conf :
       /\ env = [n \in Node |-> [f \in EnvFile |-> IF f = ".env" THEN c ELSE d]]
       /\ image = c.image
  /\ local = [n \in Node |-> {}]
  /\ overlay = [n \in Node |-> NoImage]
  /\ box = [n \in Node |-> NoBox]
  /\ pc = "idle" /\ cmd = "stop" /\ file = ".env"
  /\ boots = 0 /\ edits = 0 /\ polls = 0
  /\ result = "none" /\ past = {}

(* A running boot has sourced .env once, copies it later, and each launch  *)
(* sources it again.                                                       *)
Edit(c) ==
  /\ edits < MaxEdits
  /\ env' = [env EXCEPT !["head"][".env"] = c]
  /\ edits' = edits + 1
  /\ Passes("edit", pc # "idle")
  /\ UNCHANGED <<local, overlay, box, pc, cmd, file, image, boots, polls, result>>

Dies(n) ==
  /\ Up(n)
  /\ box' = [box EXCEPT ![n].up = FALSE]
  /\ UNCHANGED <<fixed, local, overlay, pc, polls, result, past>>

Script ==
  \/ \E ssh \in BOOLEAN : Clean(ssh) \/ Stop(ssh) \/ StopOld(ssh) \/ CheckWorker(ssh)
  \/ \E ok, skip \in BOOLEAN : Preflight(ok, skip)
  \/ \E ok \in BOOLEAN : Sync(ok) \/ LaunchHead(ok)
  \/ \E got \in SUBSET (Image \cup {Fallback}) : PullHead(got)
  \/ \E ssh, got \in BOOLEAN : PullWorker(ssh, got)
  \/ \E ran, ok, seen \in BOOLEAN : LaunchWorker(ran, ok, seen)
  \/ \E ran, ok \in BOOLEAN : RelaunchWorker(ran, ok)
  \/ Healthy
  \/ NotYet

Next ==
  \/ \E c \in {"start", "restart", "stop"}, f \in EnvFile : Begin(c, f)
  \/ Script
  \/ \E c \in Conf : Edit(c)
  \/ \E n \in Node : Dies(n)

(* start.sh keeps going: the calls it makes return.  ConnectTimeout bounds *)
(* connecting only, so that a hung pull or ssh session ends is assumed.    *)
Spec == Init /\ [][Next]_vars /\ WF_vars(Script)

-----------------------------------------------------------------------------
TypeOK ==
  /\ env \in [Node -> [EnvFile -> Conf]]
  /\ local \in [Node -> SUBSET (Image \cup {Fallback})]
  /\ overlay \in [Node -> Image \cup {Fallback, NoImage}]
  /\ box \in [Node -> Container \cup {NoBox}]
  /\ pc \in {"idle", "clean", "preflight", "pull_head", "pull_worker", "sync", "stop", "stop_old",
             "launch_worker", "relaunch_worker", "check_worker", "launch_head", "poll"}
  /\ cmd \in {"start", "restart", "stop"} /\ file \in EnvFile /\ image \in Image
  /\ boots \in 0 .. MaxBoots /\ edits \in 0 .. MaxEdits /\ polls \in 0 .. MaxPolls
  /\ result \in {"none", "ok", "failed", "stopped"} /\ past \subseteq Past

(* The rank of this boot, launched with its env file.                      *)
Own(n) == box[n] # NoBox /\ box[n].boot = boots /\ box[n].file = file

(* What a boot that reports OK may have gone past costs it one agreement   *)
(* each, whatever earlier boots, failures and edits left on the nodes: the *)
(* head's rank is always its own, the worker's unless its launch was not   *)
(* seen to succeed; two own ranks read the same env file unless the copy   *)
(* failed or .env was edited meanwhile, and then run the image it names    *)
(* unless the pull was skipped or did not bring it.                        *)
OkRanksAgree ==
  result = "ok" =>
    /\ Own("head")
    /\ "launch" \notin past => Own("worker")
    /\ Own("worker") /\ past \cap {"sync", "edit"} = {} =>
         /\ box["worker"].conf = box["head"].conf
         /\ past \cap {"skip", "pull"} = {} => \A n \in Node : box[n].image = image

(* A boot that reports OK serves what it was started for: "worker has no   *)
(* GHCR - copying via save/load", so a worker that cannot pull the image   *)
(* gets the one the head runs; "check the container came up", so the       *)
(* worker's rank is this boot's, and from the boot's env file as the       *)
(* head's is; a mounted coordinator was "generated per node from the       *)
(* image" the container runs.  SKIP_PULL leaves the image to the operator. *)
RanksServeTheSame ==
  result = "ok" /\ "skip" \notin past =>
    /\ Own("worker")
    /\ box["worker"].conf = box["head"].conf
    /\ box["head"].image = image => box["worker"].image = image
    /\ \A n \in Node : box[n].overlay \in {NoImage, box[n].image}

(* Every boot ends with a report, whatever fails and whoever dies.         *)
EveryBootEnds == pc # "idle" ~> pc = "idle"
=============================================================================
