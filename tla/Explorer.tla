-------------------------------- MODULE Explorer --------------------------------
(* The data hub's explorer: change(), load() and exportRange() of
   exploration/workspace.tsx and the reads they make, while new versions are
   published.

   A read names the receipts it wants, or takes the newest ones of its filter;
   the answer names those it took, and so does every later page and every
   chunk of an export.  A view is a filter with one version of its receipts;
   version 0 has no receipt and no row.  Answers of a load that another load
   or a change of the filter has overtaken are dropped. *)
EXTENDS Sequences, Integers, BrowserTab

CONSTANTS
    Filters,       \* contract, period and dates
    Pages,         \* pages of a view on the screen
    Chunks,        \* chunks of a view in an export
    MaxPublished,  \* bound: versions published of a filter
    MaxLoads       \* bound: loads and changes of the filter

ASSUME ExplorerAssumption ==
    /\ None \notin Filters
    /\ Pages \in Nat \ {0} /\ Chunks \in Nat \ {0} /\ MaxPublished \in Nat \ {0} /\ MaxLoads \in Nat

Views == Filters \X (0..MaxPublished)
ASSUME NoViewAssumption == None \notin Views
Loads == 1..MaxLoads

VARIABLES
    published,   \* the newest version of each filter
    mode,        \* "browse", "quality" or "versions"
    filter, preset, result, pageNo, loaded, busy, broken,
    current,     \* the generation: loads and changes so far
    load,        \* how far each load is
    wants,       \* its filter
    receipts,    \* the receipts it names
    turnsTo,     \* the page it asks for
    found,       \* the view it was answered with
    \* exportRange()
    exporting, fixed, range, chunk, rows, file

screen   == <<filter, preset, result, pageNo, loaded, busy, broken>>
loads    == <<load, wants, receipts, turnsTo, found>>
export   == <<exporting, fixed, range, chunk, rows, file>>
explorer == <<published, mode, screen, current, loads, export>>

ExplorerTypeOK ==
    /\ published \in [Filters -> 0..MaxPublished] /\ mode \in {"browse", "quality", "versions"}
    /\ filter \in Filters /\ preset \in Views \cup {None} /\ result \in Views \cup {None}
    /\ pageNo \in 0..(Pages - 1) /\ loaded \in Filters \cup {None}
    /\ busy \in BOOLEAN /\ broken \in BOOLEAN
    /\ current \in 0..MaxLoads
    /\ load \in [Loads -> {"none", "asked", "answered", "over"}]
    /\ wants \in [Loads -> Filters \cup {None}] /\ receipts \in [Loads -> Views \cup {None}]
    /\ turnsTo \in [Loads -> 0..(Pages - 1)] /\ found \in [Loads -> Views \cup {None}]
    /\ exporting \in BOOLEAN /\ fixed \in Views \cup {None} /\ range \in Filters \cup {None}
    /\ chunk \in {"none", "due", "asked"} /\ rows \in Seq(Views \X (0..(Chunks - 1)))
    /\ file \in Seq(Views \X (0..(Chunks - 1)))

(* A link may bring a filter and one receipt to look at. *)
InitExplorer ==
    /\ published \in [Filters -> 0..1] /\ mode \in {"browse", "quality", "versions"}
    /\ filter \in Filters
    /\ preset \in {None} \cup {v \in Views : v[2] = 1 /\ published[v[1]] = 1}
    /\ result = None /\ pageNo = 0 /\ loaded = None /\ busy = FALSE /\ broken = FALSE
    /\ current = 0
    /\ load = [n \in Loads |-> "none"] /\ wants = [n \in Loads |-> None]
    /\ receipts = [n \in Loads |-> None] /\ turnsTo = [n \in Loads |-> 0]
    /\ found = [n \in Loads |-> None]
    /\ exporting = FALSE /\ fixed = None /\ range = None /\ chunk = "none"
    /\ rows = <<>> /\ file = <<>>
-----------------------------------------------------------------------------
(* Faulty variant: the sign of loading is left to the overtaken load. *)
ChangeOnly(f) ==
    /\ f # filter /\ current < MaxLoads
    /\ current' = current + 1
    /\ preset' = None /\ filter' = f
    /\ loaded' = None /\ result' = None /\ pageNo' = 0
    /\ broken' = FALSE
    /\ UNCHANGED <<published, mode, busy, loads, export>>

(* change(): nothing of the old filter stays, and nothing of it may come. *)
Change(f) ==
    /\ f # filter /\ current < MaxLoads
    /\ current' = current + 1
    /\ preset' = None /\ filter' = f
    /\ loaded' = None /\ result' = None /\ pageNo' = 0
    /\ broken' = FALSE /\ busy' = FALSE
    /\ UNCHANGED <<published, mode, loads, export>>

(* load(), up to its request. *)
Begin(f, ids, p) ==
    /\ current < MaxLoads
    /\ current' = current + 1
    /\ load' = [load EXCEPT ![current'] = "asked"]
    /\ wants' = [wants EXCEPT ![current'] = f]
    /\ receipts' = [receipts EXCEPT ![current'] = IF mode = "browse" THEN ids ELSE None]
    /\ turnsTo' = [turnsTo EXCEPT ![current'] = p]
    /\ busy' = TRUE /\ broken' = FALSE
    /\ UNCHANGED <<published, mode, filter, preset, result, pageNo, loaded, found, export>>

Search == Begin(filter, preset, 0)

(* Faulty variant: a page of what the search would find now. *)
TurnNewest(p) ==
    /\ result # None /\ loaded # None /\ p # pageNo
    /\ result[2] > 0 /\ mode # "quality"
    /\ Begin(loaded, preset, p)

(* The pages of what is shown: the same receipts again. *)
TurnPage(p) ==
    /\ result # None /\ loaded # None /\ p # pageNo
    /\ result[2] > 0 /\ mode # "quality"
    /\ Begin(loaded, result, p)

(* pinned(): the receipts named, which must be of the filter, or the newest. *)
Pinned(f, ids) == IF ids = None THEN <<f, published[f]>> ELSE ids
Pinnable(f, ids) == ids # None => ids[1] = f

Serve(n) ==
    /\ load[n] = "asked" /\ Pinnable(wants[n], receipts[n])
    /\ load' = [load EXCEPT ![n] = "answered"]
    /\ found' = [found EXCEPT ![n] = Pinned(wants[n], receipts[n])]
    /\ UNCHANGED <<published, mode, screen, current, wants, receipts, turnsTo, export>>

Mine(n) == n = current

(* The load is over and its arguments are gone. *)
Over(n) ==
    /\ load' = [load EXCEPT ![n] = "over"] /\ wants' = [wants EXCEPT ![n] = None]
    /\ receipts' = [receipts EXCEPT ![n] = None] /\ turnsTo' = [turnsTo EXCEPT ![n] = 0]
    /\ found' = [found EXCEPT ![n] = None]

LoadArrives(n) ==
    /\ load[n] = "answered"
    /\ Over(n)
    /\ IF Mine(n)
       THEN /\ result' = found[n] /\ pageNo' = turnsTo[n] /\ loaded' = wants[n]
            /\ busy' = FALSE /\ UNCHANGED <<filter, preset, broken>>
       ELSE UNCHANGED screen
    /\ UNCHANGED <<published, mode, current, export>>

(* Refused, lost, too late, or two readers are at work already. *)
LoadFails(n) ==
    /\ load[n] \in {"asked", "answered"}
    /\ Over(n)
    /\ IF Mine(n)
       THEN /\ broken' = TRUE /\ result' = None /\ pageNo' = 0 /\ loaded' = None
            /\ busy' = FALSE /\ UNCHANGED <<filter, preset>>
       ELSE UNCHANGED screen
    /\ UNCHANGED <<published, mode, current, export>>
-----------------------------------------------------------------------------
(* exportRange(): chunk by chunk, of the view that is shown now. *)
Export ==
    /\ mode = "browse" /\ result # None /\ loaded # None /\ ~exporting /\ result[2] > 0
    /\ exporting' = TRUE /\ fixed' = result /\ range' = loaded
    /\ chunk' = "due" /\ rows' = <<>>
    /\ UNCHANGED <<published, mode, screen, current, loads, file>>

AskChunk ==
    /\ chunk = "due" /\ Len(rows) < Chunks
    /\ chunk' = "asked"
    /\ UNCHANGED <<published, mode, screen, current, loads, exporting, fixed, range, rows, file>>

(* The chunk comes; its view is what it was asked of and what is exported. *)
ChunkArrives ==
    /\ chunk = "asked" /\ Pinnable(range, fixed)
    /\ Pinned(range, fixed) = fixed
    /\ chunk' = "due"
    /\ rows' = Append(rows, <<Pinned(range, fixed), Len(rows)>>)
    /\ UNCHANGED <<published, mode, screen, current, loads, exporting, fixed, range, file>>

Ended ==
    /\ exporting' = FALSE /\ fixed' = None /\ range' = None /\ chunk' = "none" /\ rows' = <<>>

Complete(sequence) == Len(sequence) >= Chunks

Download ==
    /\ chunk = "due" /\ Complete(rows)
    /\ file' = rows
    /\ Ended
    /\ UNCHANGED <<published, mode, screen, current, loads>>

(* No chunk, or one of another view: nothing is saved. *)
ExportFails ==
    /\ chunk = "asked"
    /\ Ended
    /\ UNCHANGED <<published, mode, screen, current, loads, file>>

Publish(f) ==
    /\ published[f] < MaxPublished
    /\ published' = [published EXCEPT ![f] = @ + 1]
    /\ UNCHANGED <<mode, screen, current, loads, export>>

NextExplorer ==
    \/ Search \/ Export \/ AskChunk \/ ChunkArrives \/ Download \/ ExportFails
    \/ \E f \in Filters : Change(f) \/ Publish(f)
    \/ \E p \in 0..(Pages - 1) : TurnPage(p)
    \/ \E n \in Loads : Serve(n) \/ LoadArrives(n) \/ LoadFails(n)
-----------------------------------------------------------------------------
(* What is shown answers the filter and the receipt that are on the screen,
   not those of a load that was overtaken. *)
ShownIsTheQuestion ==
    /\ result # None <=> loaded # None
    /\ result # None => loaded = filter /\ result[1] = filter /\ ~broken
    /\ mode = "browse" /\ preset # None /\ result # None => result = preset

(* The page says that it loads exactly while the load it waits for is under
   way: it neither waits for an overtaken load nor forgets the newest. *)
BusyIsTrue == busy <=> current \in Loads /\ load[current] \in {"asked", "answered"}

(* A file holds every chunk of one view, in order and once, whatever was
   published, shown or loaded meanwhile. *)
ExportIsWhole ==
    file # <<>> => \E v \in Views : file = [i \in 1..Chunks |-> <<v, i - 1>>]

(* Turning pages stays in the view that was searched, while newer versions are
   published. *)
PagesOfOneView ==
    mode = "browse" /\ result' # None /\ pageNo' # 0 => result' = result
=============================================================================
