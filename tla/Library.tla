------------------------------ MODULE Library ------------------------------
(***************************************************************************)
(* What a workspace writes with: BrandVoicesService, ContentTemplatesService*)
(* and CampaignsService.  The three share no state.  A voice and a template*)
(* are their names and what is counted of them; rendering a template and   *)
(* the contents of a campaign report are left out.                         *)
(***************************************************************************)
EXTENDS Service

CONSTANTS
  MaxVoices, MaxTemplates, MaxTasks, MaxLines, MaxReports,  \* bounds: records, the fixtures' included
  MaxVersion,  \* bound: versions of a voice
  MaxUses      \* bound: uses of a template

VARIABLES
  voices,       \* brand voices, oldest first
  templates,    \* content templates, oldest first
  madePosts,    \* how many posts templates have made
  milestones,   \* the fixtures' campaign milestones
  tasks,        \* campaign tasks, oldest first
  budgetLines,  \* oldest first
  reports       \* campaign reports, oldest first

voicesVars == <<voices>>
templatesVars == <<templates, madePosts>>
campaignsVars == <<milestones, budgetLines, reports>>
tasksVars == <<tasks>>

LibraryAssumption == MaxVersion \in Nat \ {0}
ASSUME LibraryAssumption

VoiceNames == [word : Words, capitals : BOOLEAN, copies : Nat]
TaskStatuses == {"todo", "in_progress", "blocked", "done"}
Completion == {Never} \cup Instants

BrandVoice == [name : VoiceNames, version : 1 .. MaxVersion]
ContentTemplate ==
  [name : Spelled, status : {"draft", "active", "archived"}, usageCount : Nat]
Milestone == [status : {"pending", "at_risk", "completed"}, completedAt : Completion]
Task == [status : TaskStatuses, completedAt : Completion]
BudgetLine == [category : Spelled, allocated : Nat, spent : Nat]
CampaignReport == [completed : Nat, spend : Nat]

LibraryTypeOK ==
  /\ voices \in Seq(BrandVoice)
  /\ templates \in Seq(ContentTemplate)
  /\ madePosts \in Nat
  /\ milestones \in Seq(Milestone)
  /\ tasks \in Seq(Task)
  /\ budgetLines \in Seq(BudgetLine)
  /\ reports \in Seq(CampaignReport)

-----------------------------------------------------------------------------
(* Brand voices: names are compared as they are written. *)

FixtureVoices ==
  << [name |-> [word |-> DemoName.word, capitals |-> FALSE, copies |-> 0], version |-> 1] >>

VoicesInit == voices = FixtureVoices

NameTaken(name, except) == \E i \in DOMAIN voices : voices[i].name = name /\ i # except

CreateVoice(name) ==
  /\ ~NameTaken(name, NoRecord)
  /\ Len(voices) < MaxVoices
  /\ voices' = Append(voices, [name |-> name, version |-> 1])

\* An update without a name keeps the old one; every update makes a version.
UpdateVoiceRecord(v, name) ==
  /\ name # voices[v].name => ~NameTaken(name, v)
  /\ voices[v].version < MaxVersion
  /\ voices' = [voices EXCEPT ![v].name = name, ![v].version = @ + 1]

\* Mutant: the name of a copy is not looked for.
DuplicateVoice_Unasked(v) ==
  /\ Len(voices) < MaxVoices
  /\ voices' = Append(voices, [name |-> [voices[v].name EXCEPT !.copies = @ + 1], version |-> 1])

DuplicateVoice(v) ==
  LET copy == [voices[v].name EXCEPT !.copies = @ + 1]
  IN /\ ~NameTaken(copy, NoRecord)
     /\ Len(voices) < MaxVoices
     /\ voices' = Append(voices, [name |-> copy, version |-> 1])

VoicesNext ==
  /\ UNCHANGED now
  /\ \/ \E name \in [word : Words, capitals : BOOLEAN, copies : {0, 1}] : CreateVoice(name)
     \/ \E v \in DOMAIN voices :
          \/ \E name \in [word : Words, capitals : {FALSE}, copies : {0}] \cup {voices[v].name} :
               UpdateVoiceRecord(v, name)
          \/ DuplicateVoice(v)

\* No two voices of a workspace have one name, however they were made: created, renamed or copied.
\* [BrandVoicesService.assertUniqueName]
VoicesApart == \A u, v \in DOMAIN voices : voices[u].name = voices[v].name => u = v

-----------------------------------------------------------------------------
(* Content templates: names are compared trimmed and in lower case. *)

FixtureTemplates == << [name |-> DemoName, status |-> "active", usageCount |-> 4] >>

TemplatesInit == templates = FixtureTemplates /\ madePosts = 0

CreateTemplate(name, status) ==
  /\ ~\E i \in DOMAIN templates :
        Plain(templates[i].name) = Plain(name) /\ templates[i].status # "archived"
  /\ Len(templates) < MaxTemplates
  /\ templates' = Append(templates, [name |-> name, status |-> status, usageCount |-> 0])
  /\ UNCHANGED madePosts

\* The post is made first; when PostsService refuses it nothing is counted.
UseTemplate(t) ==
  /\ templates[t].status = "active"
  /\ templates[t].usageCount < MaxUses
  /\ madePosts' = madePosts + 1
  /\ templates' = [templates EXCEPT ![t].usageCount = @ + 1]

TemplatesNext ==
  /\ UNCHANGED now
  /\ \/ \E name \in Spelled, status \in {"draft", "active", "archived"} : CreateTemplate(name, status)
     \/ \E t \in DOMAIN templates : UseTemplate(t)

\* At most one template of a name that is not archived.  [ContentTemplatesService.create]
TemplatesApart ==
  \A s, t \in DOMAIN templates :
    /\ Plain(templates[s].name) = Plain(templates[t].name)
    /\ templates[s].status # "archived" /\ templates[t].status # "archived"
    => s = t

-----------------------------------------------------------------------------
(* The work on one campaign.  What a report says of the tasks is its text. *)

FixtureMilestones ==
  << [status |-> "completed", completedAt |-> 1], [status |-> "at_risk", completedAt |-> Never],
     [status |-> "pending", completedAt |-> Never] >>
FixtureBudgetLines == << [category |-> [DemoName EXCEPT !.capitals = TRUE], allocated |-> 2, spent |-> 1] >>
FixtureReports == << [completed |-> 1, spend |-> 1] >>

CampaignsInit ==
  /\ milestones = FixtureMilestones
  /\ budgetLines = FixtureBudgetLines
  /\ reports = FixtureReports

\* Completing what is completed changes nothing.
CompleteMilestone(m) ==
  /\ milestones[m].status # "completed"
  /\ milestones' = [milestones EXCEPT ![m] = [status |-> "completed", completedAt |-> now]]
  /\ UNCHANGED <<budgetLines, reports>>

LineOf(category) == Newest(budgetLines, LAMBDA line : Plain(line.category) = Plain(category))

\* A line keeps the spelling it was made with.
UpsertBudgetLine(category, allocated, spent) ==
  LET line == LineOf(category)
  IN /\ IF line = NoRecord
        THEN /\ Len(budgetLines) < MaxLines
             /\ budgetLines' = Append(budgetLines, [category |-> category, allocated |-> allocated,
                                                    spent |-> spent])
        ELSE budgetLines' = [budgetLines EXCEPT ![line].allocated = allocated,
                                                ![line].spent = spent]
     /\ UNCHANGED <<milestones, reports>>

Total(field(_)) ==
  LET sum[i \in 0 .. Len(budgetLines)] == IF i = 0 THEN 0 ELSE sum[i - 1] + field(budgetLines[i])
  IN sum[Len(budgetLines)]

BudgetSummary ==
  LET allocated == Total(LAMBDA line : line.allocated)
      spent == Total(LAMBDA line : line.spent)
  IN [allocated |-> allocated, spent |-> spent,
      remaining |-> IF spent < allocated THEN allocated - spent ELSE 0]

GenerateReport ==
  /\ Len(reports) < MaxReports
  /\ reports' = Append(reports,
       [completed |-> Cardinality({m \in DOMAIN milestones : milestones[m].status = "completed"}),
        spend |-> BudgetSummary.spent])
  /\ UNCHANGED <<milestones, budgetLines>>

CampaignsNext ==
  \/ Tick /\ UNCHANGED campaignsVars
  \/ /\ UNCHANGED now
     /\ \/ \E m \in DOMAIN milestones : CompleteMilestone(m)
        \/ \E category \in Spelled, spent \in {0, 2} : UpsertBudgetLine(category, 1, spent)
        \/ GenerateReport

FixtureTasks ==
  << [status |-> "in_progress", completedAt |-> Never], [status |-> "blocked", completedAt |-> Never],
     [status |-> "todo", completedAt |-> Never] >>

TasksInit == tasks = FixtureTasks

CreateTask ==
  /\ Len(tasks) < MaxTasks
  /\ tasks' = Append(tasks, [status |-> "todo", completedAt |-> Never])

UpdateTaskStatus(t, status) ==
  tasks' = [tasks EXCEPT ![t] =
    [status |-> status, completedAt |-> IF status = "done" THEN now ELSE Never]]

TasksNext ==
  \/ Tick /\ UNCHANGED tasksVars
  \/ /\ UNCHANGED now
     /\ \/ CreateTask
        \/ \E t \in DOMAIN tasks, status \in TaskStatuses : UpdateTaskStatus(t, status)

\* One budget line per category, so that no money is counted twice, and completion is stamped
\* exactly on what is complete.  [CampaignsService.upsertBudgetLine, updateTaskStatus]
BudgetLinesApart ==
  /\ \A i, j \in DOMAIN budgetLines :
       Plain(budgetLines[i].category) = Plain(budgetLines[j].category) => i = j
  /\ \A t \in DOMAIN tasks : tasks[t].status = "done" <=> tasks[t].completedAt # Never
  /\ \A m \in DOMAIN milestones :
       milestones[m].status = "completed" <=> milestones[m].completedAt # Never
=============================================================================
