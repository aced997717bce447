------------------------------- MODULE Workbench -------------------------------
(* One tab of the workbench: the Live application, whose commands need the
   controls its status enables and act on one kernel; the research application
   with the form of its experiments; or the explorer of the data hub. *)
EXTENDS BrowserCommands, PageQueries, Explorer

CONSTANTS
    LiveClicks,  \* bound: clicks of a Live page
    Replaceable  \* bound: instances whose kernel may be replaced

ASSUME WorkbenchAssumption == LiveClicks \subseteq Clicks /\ Replaceable \subseteq Instances

VARIABLE meant   \* the kernel the page was bound to when a click was made

workbench == <<vars, queries, explorer, meant>>

WorkbenchTypeOK ==
    /\ TypeOK /\ QueriesTypeOK /\ ExplorerTypeOK
    /\ meant \in [Clicks -> Kernels \cup {None}]


(* Only the explorer's page depends on what was published before. *)
InitWorkbench ==
    /\ Init /\ InitQueries /\ InitExplorer
    /\ meant = [c \in Clicks |-> None]
    /\ application # "data_hub" =>
         /\ mode = "browse" /\ preset = None /\ published = [f \in Filters |-> 0]
         /\ filter = CHOOSE f \in Filters : TRUE

Pending == lock # None
Mounted == application = "live" /\ restored /\ instance # None
-----------------------------------------------------------------------------
(* The Action of a Live page: enabled by the runtime, and bound to it. *)
LiveSubmit(c) ==
    /\ application = "live" /\ c \in LiveClicks /\ CanControl(Pending)
    /\ Submit(c)
    /\ meant' = [meant EXCEPT ![c] = bound]
    /\ UNCHANGED <<queries, explorer>>

(* The host sends the command to the kernel of its instance, which takes none
   that was meant for another. *)
Reached(c) == target[c] # None /\ meant[c] = <<target[c], kernel[target[c]]>>

LiveExecute(c, outcome) ==
    /\ application = "live" /\ Reached(c)
    /\ Execute(c, outcome)
    /\ UNCHANGED <<queries, explorer, meant>>

LiveReload ==
    /\ application = "live"
    /\ Reload /\ ReloadQueries
    /\ UNCHANGED <<explorer, meant>>

(* The provider of the runtime is there once an instance is selected. *)
Poll ==
    /\ Mounted
    /\ \/ Ask(instance) \/ Refresh \/ BindFirst \/ BindCurrent \/ Lapse
       \/ \E g \in Generations : Observe(g) \/ Arrive(g) \/ Fail(g)
       \/ \E i \in Replaceable : Replace(i)
    /\ UNCHANGED <<vars, explorer, meant>>

ExperimentStep ==
    /\ application = "research"
    /\ \/ Reload \/ Edit
       \/ \E c \in Clicks : Submit(c) \/ \E outcome \in Answers : Execute(c, outcome)
    /\ UNCHANGED <<queries, explorer, meant>>

CommandStep ==
    /\ application # "data_hub"
    /\ \/ Page \/ Acknowledge \/ ForgetSessions
       \/ \E i \in Instances : SwitchInstance(i)
       \/ \E c \in Clicks :
            Lose(c) \/ Deny(c) \/ \E outcome \in Answers : Refuse(c, outcome)
    /\ UNCHANGED <<queries, explorer, meant>>

ExplorerStep ==
    /\ application = "data_hub"
    /\ NextExplorer
    /\ UNCHANGED <<vars, queries, meant>>

NextWorkbench ==
    \/ LiveReload \/ Poll \/ ExperimentStep \/ CommandStep \/ ExplorerStep
    \/ \E c \in Clicks :
         LiveSubmit(c) \/ \E outcome \in Answers : LiveExecute(c, outcome)

SpecWorkbench == InitWorkbench /\ [][NextWorkbench]_workbench
-----------------------------------------------------------------------------
(* What the pages show: an answer to the question on the screen, a sign of
   loading that is true, observations that go on, and files of one view. *)
PagesAreTrue ==
    WorkbenchTypeOK /\ ShownIsTheQuestion /\ BusyIsTrue /\ PollingGoesOn /\ ExportIsWhole

(* A command takes effect only in the kernel that its page was bound to, of the
   instance it was sent to, however often kernel, instance and page changed
   before it arrived. *)
EffectsWhereShown ==
    application = "live" =>
        \A c \in effects' \ effects : meant[c] = <<target[c], kernel[target[c]]>>

(* What happens follows what the page shows, and what it shows is not replaced
   by what is older or of another view: the status by an overtaken poll, a page
   of rows by a page of newer publications. *)
PageIsFollowed == [][EffectsWhereShown /\ NeverGoesBack /\ PagesOfOneView]_workbench
=============================================================================
