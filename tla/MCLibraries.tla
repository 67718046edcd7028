---------------------------- MODULE MCLibraries ----------------------------
(* Instances of the parts that do not run inside the services above, for   *)
(* TLC: a behaviour is one of them.                                        *)
EXTENDS MqDirectory, ClientSdk, BlockCache, MerkelTree, EncryptLib, KeyStore, Watchdog

CONSTANTS agent1, app1, app2, app3

VARIABLE part  (* the module whose behaviour this is                       *)

MCAgents == {agent1}
MCGiven == [n \in MCAgents |-> 0]
MCApps == {app1, app2, app3}
MCAppOrder == <<app1, app2, app3>>

Parts == {"directory", "sdk", "cache", "tree", "encrypt", "keys", "watchdog"}

MCInit ==
  /\ part \in Parts
  /\ Init /\ SdkInit /\ CacheInit /\ TreeInit /\ EncInit /\ KeyInit /\ DogInit
  /\ part # "sdk" => sdk = "vbh"

MCNext ==
  /\ UNCHANGED part
  /\ \/ /\ part = "directory" /\ Next
        /\ UNCHANGED <<sdkVars, cacheVars, treeVars, encVars, keyVars, dogVars>>
     \/ /\ part = "sdk" /\ SdkNext
        /\ UNCHANGED <<vars, cacheVars, treeVars, encVars, keyVars, dogVars>>
     \/ /\ part = "cache" /\ CacheNext
        /\ UNCHANGED <<vars, sdkVars, treeVars, encVars, keyVars, dogVars>>
     \/ /\ part = "tree" /\ TreeNext
        /\ UNCHANGED <<vars, sdkVars, cacheVars, encVars, keyVars, dogVars>>
     \/ /\ part = "encrypt" /\ EncNext
        /\ UNCHANGED <<vars, sdkVars, cacheVars, treeVars, keyVars, dogVars>>
     \/ /\ part = "keys" /\ KeyNext
        /\ UNCHANGED <<vars, sdkVars, cacheVars, treeVars, encVars, dogVars>>
     \/ /\ part = "watchdog" /\ DogNext
        /\ UNCHANGED <<vars, sdkVars, cacheVars, treeVars, encVars, keyVars>>

allVars == <<part, vars, sdkVars, cacheVars, treeVars, encVars, keyVars, dogVars>>

(* The fairness of the two parts that promise something.  That of the      *)
(* directory is Fairness, in its behaviours; nobody calls Init in others.  *)
Dir == part = "directory"

DirectoryFairness ==
  /\ \A n \in Agents :
       /\ WF_vars(Dir /\ OnRegMqClientAddrReq(n)) /\ WF_vars(Dir /\ OnSchedulerConnected(n))
       /\ WF_vars(Dir /\ OnForwarderAddrs(n))
       /\ \A f \in Forwarders :
            /\ WF_vars(Dir /\ OnForwarderConnected(n, f))
            /\ WF_vars(Dir /\ OnDelForwarderAddr(n, f))
            /\ WF_vars(Dir /\ f \notin up /\ OnForwarderLost(n, f))
  /\ \A f \in Forwarders : WF_vars(Dir /\ ForwarderStep(f))

MCSpec == MCInit /\ [][MCNext]_allVars /\ DirectoryFairness /\ SdkFairness
=============================================================================
