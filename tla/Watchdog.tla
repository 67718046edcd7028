------------------------------ MODULE Watchdog ------------------------------
(***************************************************************************)
(* CWatchdogHandler: starts the applications of its configuration and      *)
(* starts again the one whose process exited.  Exits are handled one at a  *)
(* time; the process ids are those the system deals, which it deals again  *)
(* once an exit was collected.                                             *)
(***************************************************************************)
EXTENDS Integers, Sequences, FiniteSets

CONSTANTS
  Apps,      (* the sections of watchdog.ini                               *)
  AppOrder,  (* their order in the list                                    *)
  Pids       (* process ids of the system                                  *)

ASSUME AppsAssumption == AppOrder \in Seq(Apps) /\ Apps = {AppOrder[i] : i \in DOMAIN AppOrder}
ASSUME PidsAssumption == Pids \subseteq Nat \ {0} /\ Cardinality(Pids) > Cardinality(Apps)

NoPid == 0       (* m_pidApp of a CAppParam that was not started            *)
InvalidPid == -1 (* spawn failed                                            *)

VARIABLES
  watched,    (* m_lstAppParam: read from the configuration                *)
  pidApp,     (* m_pidApp                                                  *)
  runs,       (* the processes that run, and the application of each       *)
  ended       (* processes that exited and were not collected              *)

dogVars == <<watched, pidApp, runs, ended>>

FreePids == Pids \ (DOMAIN runs \cup ended)

(* StartProc of some applications: each gets a fresh process, or none.     *)
Spawned(started) ==
  {got \in [started -> FreePids \cup {InvalidPid}] :
     \A a, b \in started : got[a] = got[b] => a = b \/ got[a] = InvalidPid}

AppOf(got, p) == CHOOSE a \in DOMAIN got : got[a] = p

-----------------------------------------------------------------------------
(* Init: the configuration is read, section by section; when an item is    *)
(* missing nothing is started, though what was read stays in the list.     *)
DogInit ==
  /\ watched = <<>>
  /\ pidApp = [a \in Apps |-> NoPid]
  /\ runs = [p \in {} |-> ""]
  /\ ended = {}

ReadConfigureInfo(n) ==
  /\ watched = <<>>
  /\ watched' = SubSeq(AppOrder, 1, n)
  /\ IF n < Len(AppOrder) THEN UNCHANGED <<pidApp, runs>>
     ELSE \E got \in Spawned(Apps) :
            /\ pidApp' = got
            /\ runs' = [p \in {got[a] : a \in Apps} \ {InvalidPid} |-> AppOf(got, p)]
  /\ UNCHANGED ended

(* A process exits.                                                        *)
Exit(p) ==
  /\ p \in DOMAIN runs
  /\ runs' = [q \in DOMAIN runs \ {p} |-> runs[q]]
  /\ ended' = ended \cup {p}
  /\ UNCHANGED <<watched, pidApp>>

(* The first application of the list with the id of the process.           *)
Finds(p, i) ==
  pidApp[watched[i]] = p /\ \A j \in 1 .. i - 1 : pidApp[watched[j]] # p

(* StartProc of one application, which may get the id of an old process.   *)
Started(a, q) ==
  IF q = InvalidPid THEN runs
  ELSE [x \in DOMAIN runs \cup {q} |-> IF x = q THEN a ELSE runs[x]]

(* Mutant: the new process id is not kept.                                 *)
handle_exit_Forgets(p) ==
  /\ p \in ended
  /\ ended' = ended \ {p}
  /\ \/ /\ \A i \in DOMAIN watched : pidApp[watched[i]] # p
        /\ UNCHANGED runs
     \/ \E i \in DOMAIN watched : \E q \in FreePids \cup {p, InvalidPid} :
          /\ Finds(p, i)
          /\ runs' = Started(watched[i], q)
  /\ UNCHANGED <<watched, pidApp>>

(* handle_exit: the application with the id of the process is started      *)
(* again; its new process may get the id of the old one.                   *)
handle_exit(p) ==
  /\ p \in ended
  /\ ended' = ended \ {p}
  /\ \/ /\ \A i \in DOMAIN watched : pidApp[watched[i]] # p
        /\ UNCHANGED <<pidApp, runs>>
     \/ \E i \in DOMAIN watched : \E q \in FreePids \cup {p, InvalidPid} :
          /\ Finds(p, i)
          /\ pidApp' = [pidApp EXCEPT ![watched[i]] = q]
          /\ runs' = Started(watched[i], q)
  /\ UNCHANGED watched

DogNext ==
  \/ \E n \in 1 .. Len(AppOrder) : ReadConfigureInfo(n)
  \/ \E p \in Pids : Exit(p) \/ handle_exit(p)

DogSpec == DogInit /\ [][DogNext]_dogVars

-----------------------------------------------------------------------------
(* Each process that runs or is to be collected is the process of an       *)
(* application of the list, and of one only: no exit starts a second       *)
(* instance of an application, whatever ids the system deals again         *)
(* (lines 27-43, 107-119).                                                 *)
OneInstance ==
  /\ \A p \in DOMAIN runs : pidApp[runs[p]] = p
  /\ \A p \in ended : Cardinality({a \in Apps : pidApp[a] = p}) = 1
  /\ \A a, b \in Apps : pidApp[a] = pidApp[b] => a = b \/ pidApp[a] \in {NoPid, InvalidPid}

(* An application that was started runs, or its exit is still to be        *)
(* handled, or it could not be started: none is forgotten.                 *)
NoneForgotten ==
  \A a \in Apps : pidApp[a] \in DOMAIN runs \cup ended \cup {NoPid, InvalidPid}

(* The table of the watchdog and the processes of the system agree.        *)
EachIsWatched == OneInstance /\ NoneForgotten
=============================================================================
