------------------------------ MODULE Workspace ------------------------------
(***************************************************************************)
(* The installer's Workspace (src/deploy/installer/workspace.cc): its      *)
(* constructor, which finds the ".studio" base folder above the            *)
(* executable and, tmp_ aside, redirects stdout and stderr to              *)
(* /dev/null after keeping a duplicate of stdout as the response pipe; and *)
(* SendResponse, which writes the serialized response to that pipe.        *)
(*                                                                         *)
(* A path is a record: whether it is absolute and its components.          *)
(* dirname and basename are modelled by what glibc does on such paths.     *)
(* The file descriptor table maps the numbers 0 .. MaxFd to the open file  *)
(* they refer to; open and dup take the lowest free number, as POSIX says. *)
(***************************************************************************)
EXTENDS Integers, SequencesExt

CONSTANTS
  Names,         \* path components an executable path may contain
  kBasename,     \* the name of the base folder, ".studio"
  MaxDepth,      \* bound on the components of the executable path
  RelativePaths, \* whether the executable path may be relative
  LaunchClosed,  \* sets of standard fds the process may be launched without
  MaxFd          \* the highest fd number the model tracks

ASSUME kBasename \in Names /\ "." \notin Names
ASSUME MaxDepth \in Nat \ {0} /\ MaxFd >= 3 /\ RelativePaths \in BOOLEAN
ASSUME LaunchClosed \subseteq SUBSET {0, 1, 2}

Fds      == 0 .. MaxFd
Files    == {"stdin", "stdout", "stderr", "devnull"}
Closed   == "closed"
StdFile  == <<"stdin", "stdout", "stderr">>   \* fd i-1 at launch

Path  == [abs : BOOLEAN, comps : Seq(Names \cup {"."})]
Root  == [abs |-> TRUE, comps |-> <<>>]
Dot   == [abs |-> FALSE, comps |-> <<".">>]
\* Executable paths: one to MaxDepth components, absolute or relative.
ExecPaths ==
  {[abs |-> a, comps |-> c] :
     a \in IF RelativePaths THEN BOOLEAN ELSE {TRUE},
     c \in UNION {[1 .. n -> Names] : n \in 1 .. MaxDepth}}

\* Results of RetrieveBase besides a base folder: "" and a loop that
\* never ends.
NotFound == [abs |-> FALSE, comps |-> <<>>]
Hang     == [loops |-> TRUE]

VARIABLES
  path,    \* executable_path given to the constructor
  launch,  \* the standard fds open when the process was launched
  fds,     \* fd number -> open file, or Closed
  pipe,    \* output_pipe_: the fd dup(STDOUT_FILENO) returned, or -1
  base,    \* base_
  sink,    \* where the last response written by SendResponse went
  pc       \* "constructing", "ready" or "responded"

vars == <<path, launch, fds, pipe, base, sink, pc>>

TypeOK ==
  /\ path \in ExecPaths
  /\ fds \in [Fds -> Files \cup {Closed}]
  /\ pipe \in Fds \cup {-1}
  /\ base \in Path
  /\ sink \in Files \cup {"none", "lost"}
  /\ pc \in {"constructing", "ready", "responded"}

Init ==
  /\ path \in ExecPaths
  /\ \E closed \in LaunchClosed :
       /\ launch = {0, 1, 2} \ closed
       /\ fds = [i \in Fds |-> IF i \in launch THEN StdFile[i + 1] ELSE Closed]
  /\ pipe = -1 /\ base = Root
  /\ sink = "none" /\ pc = "constructing"

(***************************************************************************)
(* Path and descriptor primitives.                                         *)
(***************************************************************************)

\* Mutant: a dirname that finds no separator after the first character of
\* "/x" and answers ".", as it does for a relative "x".
DirnameRootAsDot(c) ==
  IF Len(c.comps) > 1 THEN [c EXCEPT !.comps = Front(@)] ELSE Dot

\* dirname(3): drop the last component; "/x" gives "/", and "x", "." and
\* "" give ".".
Dirname(c) ==
  IF Len(c.comps) > 1 THEN [c EXCEPT !.comps = Front(@)]
  ELSE IF c.abs THEN Root ELSE Dot

\* basename(3) of a dirname result: its last component, or "/".
Basename(c) == IF c.comps = <<>> THEN "/" ELSE Last(c.comps)

FreeFds(f) == {i \in Fds : f[i] = Closed}

\* open(2) and dup(2): the lowest free descriptor gets the file.
OpenLowest(f, file) ==
  IF FreeFds(f) = {} THEN f ELSE [f EXCEPT ![Min(FreeFds(f))] = file]

\* dup(fd): the lowest free descriptor, or -1 when fd is not open.
DupResult(f, fd) == IF f[fd] = Closed \/ FreeFds(f) = {} THEN -1 ELSE Min(FreeFds(f))

CloseFd(f, fd) == [f EXCEPT ![fd] = Closed]

(***************************************************************************)
(* Workspace::RetrieveBase.                                                *)
(***************************************************************************)

\* Mutant: the loop that tests the cursor's basename before it moves up.
RECURSIVE BaseLoopCheckFirst(_)
BaseLoopCheckFirst(cursor) ==
  IF cursor = Root THEN NotFound
  ELSE IF Basename(cursor) = kBasename THEN cursor
  ELSE IF Dirname(cursor) = cursor THEN Hang
  ELSE BaseLoopCheckFirst(Dirname(cursor))

\* while (cursor != "/") { cursor = dirname(cursor);
\*   if (basename(cursor) == kBasename) return cursor; }  return "";
\* The loop is deterministic, so a cursor that dirname leaves unchanged
\* and that is not "/" repeats forever: that is Hang.
RECURSIVE BaseLoop(_)
BaseLoop(cursor) ==
  IF cursor = Root THEN NotFound
  ELSE LET d == Dirname(cursor) IN
       IF Basename(d) = kBasename THEN d
       ELSE IF d = cursor THEN Hang
       ELSE BaseLoop(d)

RetrieveBase(p) == BaseLoop(p)

\* Reference: the nearest proper ancestor of the path named kBasename,
\* or "" (NotFound) when there is none.
NearestStudioAncestor(p) ==
  LET ks == {k \in 1 .. Len(p.comps) - 1 : p.comps[k] = kBasename} IN
  IF ks = {} THEN NotFound ELSE [p EXCEPT !.comps = SubSeq(@, 1, Max(ks))]

\* base_ = RetrieveBase(path) + "/": an empty result leaves base_ = "/".
BaseFolder(r) == IF r = NotFound THEN Root ELSE r

(***************************************************************************)
(* The constructor and SendResponse.                                       *)
(***************************************************************************)

\* Mutant: stdout closed and redirected before it is duplicated.
ConstructDupAfterClose(f) ==
  LET f1 == CloseFd(CloseFd(f, 2), 1)
      p  == DupResult(f1, 1)
  IN [fds |-> OpenLowest(OpenLowest(f1, "devnull"), "devnull"), pipe |-> p]

\* The descriptor steps of Workspace::Workspace, in the code's order:
\* output_pipe_(dup(STDOUT)), close(STDERR), close(STDOUT), and two
\* open("/dev/null"), which take the lowest free numbers.
Construct(f) ==
  LET p  == DupResult(f, 1)
      f1 == IF p = -1 THEN f ELSE [f EXCEPT ![p] = f[1]]
      f2 == CloseFd(CloseFd(f1, 2), 1)
  IN [fds |-> OpenLowest(OpenLowest(f2, "devnull"), "devnull"), pipe |-> p]

\* The whole constructor.  It never returns when RetrieveBase loops.
Workspace ==
  LET r == RetrieveBase(path)
      c == Construct(fds)
  IN /\ pc = "constructing"
     /\ r # Hang
     /\ base' = BaseFolder(r)
     /\ fds' = c.fds
     /\ pipe' = c.pipe
     /\ pc' = "ready"
     /\ UNCHANGED <<path, launch, sink>>

\* SendResponse: the serialized response is written to output_pipe_.
SendResponse ==
  /\ pc = "ready"
  /\ sink' = IF pipe = -1 \/ fds[pipe] = Closed THEN "lost" ELSE fds[pipe]
  /\ pc' = "responded"
  /\ UNCHANGED <<path, launch, fds, pipe, base>>

Next == Workspace \/ SendResponse

Spec == Init /\ [][Next]_vars /\ WF_vars(Next)

(***************************************************************************)
(* Properties.                                                             *)
(***************************************************************************)

\* RetrieveBase agrees with its comment: once the constructor returns,
\* base_ is the nearest ancestor of the executable named ".studio"
\* (e.g. /data/local/tmp/.studio for /data/local/tmp/.studio/bin/x),
\* or "/" when there is none.
BaseIsNearestStudioFolder ==
  pc # "constructing" => base = BaseFolder(NearestStudioAncestor(path))

\* The response reaches the stdout the installer was launched with: the
\* dup of stdout survives the closes and opens that redirect fds 1 and 2.
ResponseReachesStdout ==
  (pc = "responded" /\ 1 \in launch) => sink = "stdout"

\* The constructor returns, so the installer answers at all: the
\* RetrieveBase loop ends for every executable path.
WorkspaceConstructed == <>(pc = "responded")

=============================================================================
