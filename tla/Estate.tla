------------------------------- MODULE Estate -------------------------------
(***************************************************************************)
(* What stands around the outlets' books: the businesses on the cluster    *)
(* with their archives, an owner's account, an install the operator sells, *)
(* a store being set up, and the watchdog.  Businesses and Archives share  *)
(* the registry and are composed step by step; the others share no state   *)
(* with them or with each other, so a behaviour is about one `part`, and   *)
(* the product of parts, which would show nothing more, is not explored.   *)
(* Of the cluster there are two: in one businesses are built and outlets   *)
(* provisioned; in the other, where they are not, an outlet's requests are *)
(* followed.  Its route goes by its directory entry and its business's     *)
(* row, and once an outlet has its entry only a swap and a deploy change   *)
(* either.                                                                 *)
(***************************************************************************)
EXTENDS Archives, Accounts, Installs, Onboarding, Watch

VARIABLE part
clusterVars == <<bizVars, arcVars, ops>>
estVars == <<clusterVars, accVars, insVars, onbVars, watVars, part>>

Init ==
  /\ part \in {"cluster", "served", "account", "install", "setup", "watch"}
  /\ BizInit /\ ArcInit /\ ops = 0 /\ AccInit /\ InsInit /\ OnbInit /\ WatInit
  /\ part # "install" => row.sold = (CHOOSE l \in Licences : TRUE)
  /\ part # "setup" => setting = (CHOOSE s \in Situations : TRUE)
  /\ part # "watch" => wrong = {}

ClusterNext == (BizNext /\ UNCHANGED arcVars) \/ ArcNext

Next ==
  /\ UNCHANGED part
  /\ \/ /\ part = "cluster" /\ ClusterNext /\ UNCHANGED look
        /\ UNCHANGED <<accVars, insVars, onbVars, watVars>>
     \/ /\ part = "served" /\ ClusterNext /\ UNCHANGED job
        /\ UNCHANGED <<accVars, insVars, onbVars, watVars>>
     \/ part = "account" /\ AccNext /\ UNCHANGED <<clusterVars, insVars, onbVars, watVars>>
     \/ part = "install" /\ InsNext /\ UNCHANGED <<clusterVars, accVars, onbVars, watVars>>
     \/ part = "setup" /\ OnbNext /\ UNCHANGED <<clusterVars, accVars, insVars, watVars>>
     \/ part = "watch" /\ WatNext /\ UNCHANGED <<clusterVars, accVars, insVars, onbVars>>

(* A route grows old whether anybody asks or not; the registry can be read again some day;  *)
(* a dashboard that loads finishes, and is loaded again; the minute comes round and a       *)
(* sweep's probes answer; a kept readiness ages.  Who sets a store up opens the page again  *)
(* and saves what it shows, and signs in there, and to their account, if they are not.      *)
(* Nothing else is asked of owners, operators or deploys.                                   *)
Fairness ==
  /\ \A o \in Asked : WF_bizVars(Expire(o))
  /\ WF_bizVars(RegistryBack)
  /\ \A v \in Viewers : WF_insVars(part = "install" /\ (Look(v) \/ ProbeInstall(v) \/ Push(v)))
  /\ \A p \in Panels :
       /\ WF_onbVars(part = "setup" /\ Load(p))
       /\ WF_onbVars(part = "setup" /\ (Save(p) \/ Handle(p)))
       /\ SF_onbVars(part = "setup" /\ \E b \in Picked(p) : SignIn(p, b))
       /\ SF_onbVars(part = "setup" /\ Renew(p))
  /\ \A s \in Sweeps : WF_watVars(part = "watch" /\ SweepNext(s))
  /\ WF_watVars(part = "watch" /\ ReadyTtl)

Spec == Init /\ [][Next]_estVars /\ Fairness
-----------------------------------------------------------------------------
NamedAnywhere(d) ==
  \/ \E b \in Ids : biz[b].db = d
  \/ d \in named
  \/ \E r \in Rows : shelf[r].kept /\ shelf[r].db = d

(* Every business database on the cluster is named somewhere an operator looks: by a row    *)
(* of the registry, by the audit trail or by an archive, wherever a build, a restore, a     *)
(* swap or a prune was cut off (business.js createBusiness: the row is written first).      *)
NoOrphan == \A d \in Ids : base[d].made => NamedAnywhere(d)

(* The same of what an install is built from on the platform: what a call made and its      *)
(* answer did not bring back is at most the last two parts.                                 *)
NothingUnnamed == NoOrphan /\ FewUnnamed

(* No outlet trades in two businesses' live databases, though ids are allocated, given and  *)
(* registered by transactions that do not share one (provision.js withRoleLock,             *)
(* business.js registerOutlet).  A database a business was moved from keeps its outlets and *)
(* is not counted, nor is a copy of it that whoever was registered over it took instead.    *)
(* Nor is an id that one provision was given while another, one of them without the lock,   *)
(* was registering it: that the code lets through (lock.loose).                             *)
OneHome ==
  \A b, c \in {x \in Ids : biz[x].st = "live" /\ biz[x].db \notin moved} :
    b # c => Shops(biz[b].db) \cap Shops(biz[c].db) \subseteq lock.loose

(* Once a database has a good archive, a good archive of it with its file remains, whatever *)
(* is pruned while the next is being written (backup.js prune).                             *)
LastGoodKept ==
  \A d \in Databases :
    (\E r \in Rows : shelf[r].db = d /\ shelf[r].st = "good") =>
      \E r \in GoodOf(d) : shelf[r].file

(* When changes cease, no request is served from a database its outlet's business was moved *)
(* from: the swap is a command's, and the server's own cache is never told (backup.js       *)
(* adopt, business.js routeFor).                                                            *)
SwapIsSeen ==
  <>[](\A o \in Outlets, d \in Databases : Serves(o, d) => dir[o] # 0 /\ d = biz[dir[o]].db)

(* Whatever request is cut off between two of its transactions, whoever sets the same       *)
(* business up at once, and though the account may not count for a while: who goes on       *)
(* saving the step in front of them, and signs in to the store they are at, comes to a      *)
(* business of their account on which every step is done; who has no account and may, to    *)
(* the process's own, if nobody's page went astray there first (NeverAstray); and neither   *)
(* comes to it at the other's cost.                                                         *)
SetupFinishes ==
  part = "setup" =>
    <>(\A p \in Panels :
         /\ Owns(p) # {} => \E b \in Owns(p) : Complete(b)
         /\ Owns(p) = {} /\ Rightful(p) # {} => Complete(Own) \/ ~NeverAstray)
=============================================================================
