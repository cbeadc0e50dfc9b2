----------------------------- MODULE MCJobQueue -----------------------------
(* Small instances of JobQueue.  Identities are strings that say which     *)
(* kind of job they stand for.                                             *)
EXTENDS JobQueue, TLC

MCPeriodic == {"discover"}
MCOneShot == {"rev"}
MCSlugs == {"slug"}
MCSeedPrio == [p \in MCPeriodic |-> 30]

New(prio, resurrect) == [prio |-> prio, resurrect |-> resurrect]

(* discover signals a slug, page.sync asks for the newest revision with    *)
(* resurrect, and the importer asks for it, without resurrect, at the      *)
(* priority of old history.                                                *)
MCChildren ==
  [i \in Identity |->
     CASE i = "discover" -> {"slug" :> New(15, FALSE)}
       [] i = "slug"     -> {"rev" :> New(20, TRUE)}
       [] OTHER          -> {<<>>}]
MCImports == {"rev" :> New(8, FALSE)}

PermitSymmetry == Permutations(Permits)
=============================================================================
