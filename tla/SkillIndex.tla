------------------------------ MODULE SkillIndex ------------------------------
(*****************************************************************************)
(* The skills of a directory and the jobs that take them up: agent_execute   *)
(* refreshes the index that all jobs of the process share, asks it for       *)
(* names, reads the files of these again and narrows the tools of its task   *)
(* to what the selected skills list.  Meanwhile files are written, replaced  *)
(* and deleted.  Of a file its list of allowed tools and the time of its     *)
(* writing matter; deniedTools, networkAccess and shellAccess are merged     *)
(* likewise.                                                                 *)
(*****************************************************************************)
EXTENDS Integers, SequencesExt

CONSTANTS
  SkillFiles, SkillTools,
  SkillLists,       \* the lists of tools that a file may hold
  NoFile,           \* the file, or the entry of the index, that is not there
  SkillJobs,        \* jobs that run at one time
  SkillTokenBudget, \* in skills: the files of an instance are of one size
  MaxWrites         \* bound: writes and deletions of files

ASSUME SkillAssumption ==
  /\ {SkillTokenBudget, MaxWrites} \subseteq Nat /\ SkillLists \subseteq SUBSET SkillTools
  /\ NoFile \notin Nat \cup SkillLists \cup [mtime : Nat, list : SkillLists]

VARIABLES
  writes,       \* how many there were: the clock of mtimeMs
  skillFile,         \* per skill: [mtime, list], or NoFile
  skillEntries,      \* the index: per skill [mtime, list], or NoFile
  taking,       \* per job: where it stands in refresh() and resolve()
  agentTools,   \* the allowedTools of the agent
  taskTools,         \* per job: the tools of its task, or {"none"}
  torn,         \* history: skills written while a load had read half of what it reads
  unsettled     \* history: skills created or deleted while some refresh was under way

skillVars == <<writes, skillFile, skillEntries, taking, agentTools, taskTools, torn, unsettled>>

NotTaking == [step |-> "idle", todo |-> {}, seen |-> {}, at |-> {}, list |-> NoFile,
              mtime |-> NoFile,
              offered |-> {}, loaded |-> <<>>]

SkillInit ==
  /\ writes = 0 /\ agentTools \in SkillLists \cup {{}}
  /\ skillFile \in [SkillFiles -> {NoFile} \cup [mtime : {0}, list : SkillLists]]
  /\ skillEntries = [k \in SkillFiles |-> NoFile] /\ taking = [j \in SkillJobs |-> NotTaking]
  /\ taskTools = [j \in SkillJobs |-> {"none"}] /\ torn = {} /\ unsettled = {}

Refreshing == {j \in SkillJobs : taking[j].step \in {"scan", "load", "choose"}}

TakeTo(j, record) == taking' = [taking EXCEPT ![j] = record]

UpToDate(k) ==
  /\ skillEntries[k] # NoFile /\ skillFile[k] # NoFile
  /\ skillEntries[k].mtime = skillFile[k].mtime

-----------------------------------------------------------------------------
(* The files                                                                 *)

\* the halves of a load that has one of its two reads
TornNow == {k \in SkillFiles : \E j \in SkillJobs :
           /\ taking[j].step = "load" /\ taking[j].at = {k}
           /\ (taking[j].list = NoFile) # (taking[j].mtime = NoFile)}

SkillWritten(k) ==
  /\ torn' = torn \cup (TornNow \cap {k})
  /\ unsettled' = IF Refreshing = {} THEN unsettled \ {k} ELSE unsettled \cup {k}
  /\ writes' = writes + 1 /\ UNCHANGED <<skillEntries, taking, agentTools, taskTools>>

WriteSkill(k) == \E list \in SkillLists :
  /\ writes < MaxWrites
  /\ skillFile' = [skillFile EXCEPT ![k] = [mtime |-> writes + 1, list |-> list]]
  /\ SkillWritten(k)

DeleteSkill(k) ==
  /\ writes < MaxWrites /\ skillFile[k] # NoFile
  /\ skillFile' = [skillFile EXCEPT ![k] = NoFile] /\ SkillWritten(k)

-----------------------------------------------------------------------------
(* SkillIndex.refresh()                                                      *)

FilesRest == UNCHANGED <<writes, skillFile, agentTools, torn, unsettled>>

readdir(j) ==
  /\ taking[j].step = "idle" /\ taskTools[j] = {"none"}
  /\ \E dirs \in SUBSET SkillFiles :   \* one may be there before its file
       /\ {k \in SkillFiles : skillFile[k] # NoFile} \subseteq dirs
       /\ TakeTo(j, [NotTaking EXCEPT !.step = "scan", !.todo = dirs])
  /\ unsettled' = IF Refreshing = {} THEN {} ELSE unsettled
  /\ UNCHANGED <<writes, skillFile, skillEntries, agentTools, taskTools, torn>>

\* Mutant: a skill is seen when its file was loaded
SeenWhenLoaded(j, k) ==
  /\ k \in taking[j].todo /\ taking[j].step = "scan"
  /\ LET known == UpToDate(k)
         rest == [taking[j] EXCEPT !.todo = @ \ {k}] IN
     TakeTo(j, IF skillFile[k] = NoFile \/ known THEN rest
           ELSE [rest EXCEPT !.seen = @ \cup {k}, !.step = "load", !.at = {k}])
  /\ FilesRest /\ UNCHANGED <<skillEntries, taskTools>>

\* the mtime of an entry tells whether its file must be loaded again
statSkill(j, k) ==
  /\ k \in taking[j].todo /\ taking[j].step = "scan"
  /\ LET known == UpToDate(k)
         seen == [taking[j] EXCEPT !.todo = @ \ {k}, !.seen = @ \cup {k}] IN
     TakeTo(j, IF skillFile[k] = NoFile THEN [taking[j] EXCEPT !.todo = @ \ {k}]
           ELSE IF known THEN seen ELSE [seen EXCEPT !.step = "load", !.at = {k}])
  /\ FilesRest /\ UNCHANGED <<skillEntries, taskTools>>

Abandoned(j) == [taking[j] EXCEPT !.step = "scan", !.at = {}, !.list = NoFile, !.mtime = NoFile]

\* Mutant: the metadata that is known is kept, with the new time
Reloaded(j, k) ==
  [mtime |-> taking[j].mtime,
   list |-> IF skillEntries[k] = NoFile THEN taking[j].list ELSE skillEntries[k].list]

LoadedEntry(j, k) == [mtime |-> taking[j].mtime, list |-> taking[j].list]

\* loadSkillFile reads the file and asks for its times together, in no order
readFile(j, k) ==
  /\ taking[j].step = "load" /\ taking[j].at = {k} /\ taking[j].list = NoFile
  /\ TakeTo(j, IF skillFile[k] = NoFile THEN Abandoned(j)
               ELSE [taking[j] EXCEPT !.list = skillFile[k].list])
  /\ FilesRest /\ UNCHANGED <<skillEntries, taskTools>>

statLoaded(j, k) ==
  /\ taking[j].step = "load" /\ taking[j].at = {k} /\ taking[j].mtime = NoFile
  /\ TakeTo(j, IF skillFile[k] = NoFile THEN Abandoned(j)
               ELSE [taking[j] EXCEPT !.mtime = skillFile[k].mtime])
  /\ FilesRest /\ UNCHANGED <<skillEntries, taskTools>>

setEntry(j, k) ==
  /\ taking[j].step = "load" /\ taking[j].at = {k}
  /\ taking[j].list # NoFile /\ taking[j].mtime # NoFile
  /\ skillEntries' = [skillEntries EXCEPT ![k] = LoadedEntry(j, k)]
  /\ TakeTo(j, Abandoned(j)) /\ FilesRest /\ UNCHANGED taskTools

\* whatever this refresh has not seen goes
endRefresh(j) ==
  /\ taking[j].step = "scan" /\ taking[j].todo = {}
  /\ skillEntries' = [k \in SkillFiles |-> IF k \in taking[j].seen THEN skillEntries[k] ELSE NoFile]
  /\ TakeTo(j, [taking[j] EXCEPT !.step = "choose"]) /\ FilesRest /\ UNCHANGED taskTools

-----------------------------------------------------------------------------
(* loadResolvedSkillsFromIndex and buildExecutionTask                        *)

\* by the payload's names or tags, or all
chooseSkills(j) == \E wanted \in SUBSET SkillFiles :
  /\ taking[j].step = "choose"
  /\ LET offered == {k \in SkillFiles : skillEntries[k] # NoFile} IN
     TakeTo(j, [taking[j] EXCEPT !.step = "resolve", !.offered = offered,
                                 !.todo = wanted \cap offered])
  /\ FilesRest /\ UNCHANGED <<skillEntries, taskTools>>

\* Mutant: the constraints are the index's
FullSkillByIndex(k) == [text |-> skillFile[k].list, constraints |-> skillEntries[k].list]

\* the instructions and the constraints of one reading
FullSkill(k) == [text |-> skillFile[k].list, constraints |-> skillFile[k].list]

resolveSkill(j, k) ==
  /\ taking[j].step = "resolve" /\ k \in taking[j].todo
  /\ TakeTo(j, [taking[j] EXCEPT !.todo = @ \ {k},
              !.loaded = IF NoFile \in {skillEntries[k], skillFile[k]} THEN @
                         ELSE Append(@, FullSkill(k))])
  /\ FilesRest /\ UNCHANGED <<skillEntries, taskTools>>

selectWithinBudget(loaded) ==
  SubSeq(loaded, 1, IF Len(loaded) < SkillTokenBudget THEN Len(loaded) ELSE SkillTokenBudget)

\* an empty list, and no list in common, stand for no restriction
mergeSkillConstraints(selected) ==
  LET lists == {s.constraints : s \in Range(selected)} \ {{}} IN
  {t \in UNION lists : \A l \in lists : t \in l}

applySkillConstraints(merged) ==
  IF merged = {} THEN agentTools ELSE IF agentTools = {} THEN merged ELSE agentTools \cap merged

\* an empty list of the task is no tool
buildTask(j) ==
  /\ taking[j].step = "resolve" /\ taking[j].todo = {}
  /\ LET selected == selectWithinBudget(taking[j].loaded) IN
     /\ taskTools' = [taskTools EXCEPT ![j] =
                        applySkillConstraints(mergeSkillConstraints(selected))]
     /\ TakeTo(j, [NotTaking EXCEPT !.step = "taken", !.loaded = selected,
                                    !.offered = taking[j].offered])
  /\ FilesRest /\ UNCHANGED skillEntries

SkillNext ==
  \/ \E k \in SkillFiles : WriteSkill(k) \/ DeleteSkill(k)
  \/ \E j \in SkillJobs :
       \/ readdir(j) \/ endRefresh(j) \/ chooseSkills(j) \/ buildTask(j)
       \/ \E k \in SkillFiles :
            \/ statSkill(j, k) \/ readFile(j, k) \/ statLoaded(j, k)
            \/ setEntry(j, k) \/ resolveSkill(j, k)

-----------------------------------------------------------------------------
(* Properties                                                                *)

\* An entry with its file's mtime holds what the file says, although jobs load it while others
\* write it and set entries over each other: no refresh would load it again.  Only a file that
\* was written between the two reads of a load may be misread for good.
FreshIsTrue ==
  \A k \in SkillFiles \ torn :
    UpToDate(k) => skillEntries[k].list = skillFile[k].list

\* A job is offered every skill that is there when it chooses, unless the skill came or went
\* while this refresh, or one that overlaps it, was under way: those may remove what they have
\* not seen.
SettledIsOffered ==
  [][\A j \in SkillJobs : taking[j].step = "choose" /\ taking'[j].step = "resolve" =>
       \A k \in SkillFiles \ unsettled :
         skillFile[k] # NoFile => k \in taking'[j].offered]_skillVars

\* The tools of a task are among those of every skill whose instructions it was given, and of
\* its agent, although files change between the index and the task: except that an agent with
\* no tools, and skills with no tool in common, do not restrict it.
TaskIsNarrowed ==
  \A j \in SkillJobs : taking[j].step = "taken" =>
    LET lists == {s.text : s \in Range(taking[j].loaded)} \ {{}} IN
    /\ agentTools # {} => taskTools[j] \subseteq agentTools
    /\ (\E t \in SkillTools : \A l \in lists : t \in l) => \A l \in lists : taskTools[j] \subseteq l
=============================================================================
