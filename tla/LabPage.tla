------------------------------- MODULE LabPage -------------------------------
(***************************************************************************)
(* A page's experiments over the one reader they share: web/lab/lab.js,    *)
(* footer.js and scan.js, and the module behind them, crates/              *)
(* parquet-lab-wasm/src/lib.rs with web/lab/wasm.js.  A panel fetches the  *)
(* file that was chosen, hands it to the module, shows what the reader     *)
(* makes of it and, in a view, lets a byte be changed.                     *)
(*                                                                         *)
(* The module keeps its files for good and counts them from 0; here they   *)
(* count from 1.  It is built to abort on a panic: the call traps, and     *)
(* what it had borrowed stays borrowed.  The page's script runs one task   *)
(* at a time, and what a settled promise wakes before the next one.        *)
(***************************************************************************)
EXTENDS Integers, Sequences

CONSTANTS
    Views,         \* the panels with a byte view: anatomy, and those built on it
    Scans,         \* the panels with a query
    Content,       \* the fixtures: name -> bytes
    Initial,       \* panel -> the name it opens first
    Offered,       \* view -> the names to choose from
    Edits,         \* what may be typed: [at, to]
    Outcome(_),    \* what the reader makes of some bytes: "ok", "refuses" or "panics"
    MaxChoices,    \* bound: how often a reader of the page chooses
    MaxEdits       \* bound: how often bytes are changed

Panels == Views \cup Scans
Names == DOMAIN Content

ASSUME LabAssumption ==
    /\ Views \cap Scans = {}
    /\ Content \in [Names -> Seq(Nat)]
    /\ Initial \in [Panels -> Names]
    /\ Offered \in [Views -> SUBSET Names]
    /\ Edits \subseteq [at : Nat, to : Nat]
    /\ MaxChoices \in Nat /\ MaxEdits \in Nat

VARIABLES
    reader,     \* the promise of the module: "loading", "ready" or "failed"
    files,      \* the module's files
    borrowed,   \* whether a call that trapped left them borrowed
    fetches,    \* each panel's Fixtures: name -> "none", "fetching", "here" or "failed"
    waiting,    \* the choices of a panel that await a file, in order
    ready,      \* what a panel's element says: "loading", "true" or "error"
    started,    \* the panels that have been mounted
    view,       \* what a panel keeps and shows
    choices, edits

vars == <<reader, files, borrowed, fetches, waiting, ready, started, view, choices, edits>>

NoForm == [at |-> 0, restore |-> FALSE]
NoFile == 0
Empty == <<>>   \* shows nothing, or that there is no such file

\* A view's fields.  `bytes` is what it last read, `shown` what is drawn, `form` the inspector's.
NoView == [name |-> "", original |-> Empty, id |-> NoFile, edited |-> FALSE,
           bytes |-> Empty, shown |-> Empty, form |-> NoForm]

Init ==
    /\ reader = "loading" /\ files = <<>> /\ borrowed = FALSE
    /\ fetches = [p \in Panels |-> [n \in Names |-> "none"]]
    /\ waiting = [p \in Panels |-> <<>>]
    /\ ready = [p \in Panels |-> "loading"]
    /\ started = {}
    /\ view = [p \in Panels |-> NoView]
    /\ choices = 0 /\ edits = 0

-----------------------------------------------------------------------------
(* Calls of the module.  A call's result is the files and the view after   *)
(* it, whether the files are borrowed, and whether it trapped.              *)

Result(fs, b, v, threw) == [files |-> fs, borrowed |-> b, view |-> v, threw |-> threw]

\* Faulty variant: a file of the same name is not kept twice.
LoadOnce(fs, name) ==
    IF \E i \in DOMAIN fs : fs[i].name = name
    THEN [files |-> fs, id |-> CHOOSE i \in DOMAIN fs : fs[i].name = name]
    ELSE [files |-> Append(fs, [name |-> name, bytes |-> Content[name]]), id |-> Len(fs) + 1]

\* pl_load, which must borrow the files to change them.
Load(fs, name) == [files |-> Append(fs, [name |-> name, bytes |-> Content[name]]), id |-> Len(fs) + 1]

\* pl_structure: the reader runs while the files are borrowed, and its answer is kept (emit) by
\* changing what is borrowed with them.
Shows(fs, b, v) == Outcome(fs[v.id].bytes) # "panics" /\ ~b

\* FileViews.refresh: the bytes, the structure, and then pl_footer_lab, which borrows the files
\* only to copy one.
Refresh(fs, b, v) ==
    LET bytes == fs[v.id].bytes
        read  == [v EXCEPT !.bytes = bytes]
    IN  IF Shows(fs, b, v) THEN Result(fs, b, [read EXCEPT !.shown = bytes], FALSE)
        ELSE Result(fs, b \/ Outcome(bytes) = "panics", read, TRUE)

\* FileViews.open
OpenView(v, name) ==
    LET named == [v EXCEPT !.name = name, !.original = Content[name]]
        load  == Load(files, name)
    IN  IF borrowed THEN Result(files, borrowed, named, TRUE)
        ELSE Refresh(load.files, borrowed, [named EXCEPT !.id = load.id, !.edited = FALSE, !.form = NoForm])

\* FileViews.edit: pl_set_byte, which changes nothing beyond the file's end; and the byte is
\* selected again, so that the inspector offers to restore the file.
WithByte(fs, id, at, to) ==
    [fs EXCEPT ![id].bytes = [i \in DOMAIN @ |-> IF i = at THEN to ELSE @[i]]]

Edited(v, to) ==
    LET r == Refresh(WithByte(files, v.id, v.form.at, to), borrowed, [v EXCEPT !.edited = TRUE])
    IN  IF borrowed THEN Result(files, borrowed, v, TRUE)
        ELSE IF r.threw THEN r
        ELSE [r EXCEPT !.view.form.restore = TRUE]

\* FileViews.restore: every byte that was read and differs is set.
Differs(v) == {i \in DOMAIN v.original : i \in DOMAIN v.bytes /\ v.bytes[i] # v.original[i]}

Restored(v) ==
    LET undone == [files EXCEPT ![v.id].bytes =
                      [i \in DOMAIN @ |-> IF i \in Differs(v) THEN v.original[i] ELSE @[i]]]
    IN  IF borrowed /\ Differs(v) # {} THEN Result(files, borrowed, v, TRUE)
        ELSE Refresh(undone, borrowed, [v EXCEPT !.edited = FALSE])

\* mountScan's run: pl_scan, of a file that no id names when there is none, and of the first one
\* when the panel's id is still null.
Scan(fs, b, v) ==
    LET id == IF v.id = NoFile THEN 1 ELSE v.id
    IN  IF id \notin DOMAIN fs THEN Result(fs, b, [v EXCEPT !.shown = IF b THEN @ ELSE Empty], b)
        ELSE IF Outcome(fs[id].bytes) # "panics" /\ ~b
             THEN Result(fs, b, [v EXCEPT !.shown = fs[id].bytes], FALSE)
        ELSE Result(fs, b \/ Outcome(fs[id].bytes) = "panics", v, TRUE)

OpenScan(v, name) ==
    LET load == Load(files, name)
    IN  IF borrowed THEN Result(files, borrowed, v, TRUE)
        ELSE Scan(load.files, borrowed, [v EXCEPT !.name = name, !.original = Content[name], !.id = load.id])

\* A call of panel p has its effect.
Becomes(p, r) ==
    /\ files' = r.files /\ borrowed' = r.borrowed
    /\ view' = [view EXCEPT ![p] = r.view]

-----------------------------------------------------------------------------
(* The page.                                                                *)

\* Faulty variant: an answer that is not the file is not noticed.
Here(p, name) == fetches[p][name] = "here"

\* Fixtures.get's promise has settled.
Settled(p, name) == fetches[p][name] \in {"here", "failed"}

\* Nothing is left to run of what a settled promise woke.
Quiet == /\ reader = "loading" \/ started = Panels
         /\ \A p \in Panels : \A i \in DOMAIN waiting[p] : ~Settled(p, waiting[p][i])

\* Fixtures.get: a fetch is begun once, whatever became of it.
Await(p, name) ==
    /\ fetches' = [fetches EXCEPT ![p][name] = IF @ = "none" THEN "fetching" ELSE @]
    /\ waiting' = [waiting EXCEPT ![p] = Append(@, name)]

\* loadReader: every panel awaits the same promise, and a failed one is not tried again.
ReaderSettles ==
    /\ reader = "loading"
    /\ reader' \in {"ready", "failed"}
    /\ UNCHANGED <<files, borrowed, fetches, waiting, ready, started, view, choices, edits>>

\* mount: a view's element is ready before its file is there, since its choice is not awaited.
Mount(p) ==
    /\ reader # "loading" /\ p \notin started
    /\ started' = started \cup {p}
    /\ IF reader = "failed"
       THEN /\ ready' = [ready EXCEPT ![p] = "error"]
            /\ UNCHANGED <<fetches, waiting>>
       ELSE /\ ready' = [ready EXCEPT ![p] = IF p \in Views THEN "true" ELSE @]
            /\ Await(p, Initial[p])
    /\ UNCHANGED <<reader, files, borrowed, view, choices, edits>>

FetchSettles(p, name) ==
    /\ Quiet
    /\ fetches[p][name] = "fetching"
    /\ \E how \in {"here", "failed"} : fetches' = [fetches EXCEPT ![p][name] = how]
    /\ UNCHANGED <<reader, files, borrowed, waiting, ready, started, view, choices, edits>>

\* The first choice of panel p whose file is here, or will not come.  A view's that fails is
\* nobody's concern any more; a scan's is the mount's.
Resumes(p, i) ==
    /\ i \in DOMAIN waiting[p] /\ Settled(p, waiting[p][i])
    /\ \A j \in 1 .. i - 1 : ~Settled(p, waiting[p][j])

Left(p, i) == SubSeq(waiting[p], 1, i - 1) \o SubSeq(waiting[p], i + 1, Len(waiting[p]))

ResumeView(p, i) ==
    /\ p \in Views /\ Resumes(p, i)
    /\ waiting' = [waiting EXCEPT ![p] = Left(p, i)]
    /\ IF Here(p, waiting[p][i]) THEN Becomes(p, OpenView(view[p], waiting[p][i]))
       ELSE UNCHANGED <<files, borrowed, view>>
    /\ UNCHANGED <<reader, fetches, ready, started, choices, edits>>

ResumeScan(p, i) ==
    /\ p \in Scans /\ Resumes(p, i)
    /\ waiting' = [waiting EXCEPT ![p] = Left(p, i)]
    /\ LET r == OpenScan(view[p], waiting[p][i])
       IN  IF Here(p, waiting[p][i])
           THEN /\ Becomes(p, r)
                /\ ready' = [ready EXCEPT ![p] = IF r.threw THEN "error" ELSE "true"]
           ELSE /\ ready' = [ready EXCEPT ![p] = "error"]
                /\ UNCHANGED <<files, borrowed, view>>
    /\ UNCHANGED <<reader, fetches, started, choices, edits>>

\* fileChooser: another name is chosen, whether or not the last one's file has come.
Choose(p, name) ==
    /\ Quiet /\ choices < MaxChoices
    /\ p \in started /\ ready[p] = "true" /\ name \in Offered[p]
    /\ choices' = choices + 1
    /\ Await(p, name)
    /\ UNCHANGED <<reader, files, borrowed, ready, started, view, edits>>

\* A byte of what is drawn is selected: pl_interpret's answer is kept, or the call traps.
SelectByte(p, at) ==
    /\ Quiet
    /\ ready[p] = "true" /\ at \in DOMAIN view[p].shown
    /\ view' = IF borrowed THEN view
               ELSE [view EXCEPT ![p].form = [at |-> at, restore |-> view[p].edited]]
    /\ UNCHANGED <<reader, files, borrowed, fetches, waiting, ready, started, choices, edits>>

\* The inspector's form: Apply, and Restore the original file.
EditByte(p, to) ==
    /\ Quiet /\ edits < MaxEdits
    /\ view[p].form # NoForm
    /\ edits' = edits + 1
    /\ Becomes(p, Edited(view[p], to))
    /\ UNCHANGED <<reader, fetches, waiting, ready, started, choices>>

Restore(p) ==
    /\ Quiet
    /\ view[p].form.restore
    /\ Becomes(p, Restored(view[p]))
    /\ UNCHANGED <<reader, fetches, waiting, ready, started, choices, edits>>

\* The query's form is changed, perhaps before its file has come.
ChangeQuery(p) ==
    /\ Quiet
    /\ p \in started /\ ready[p] # "error"
    /\ Becomes(p, Scan(files, borrowed, view[p]))
    /\ UNCHANGED <<reader, fetches, waiting, ready, started, choices, edits>>

SomeFetchSettles(p) == \E name \in Names : FetchSettles(p, name)
Resume(p) == \E i \in DOMAIN waiting[p] : ResumeView(p, i) \/ ResumeScan(p, i)

Next ==
    \/ ReaderSettles
    \/ \E p \in Panels : Mount(p) \/ SomeFetchSettles(p) \/ Resume(p)
    \/ \E p \in Views : \/ \E name \in Names : Choose(p, name)
                        \/ \E e \in Edits : SelectByte(p, e.at)
                        \/ \E e \in Edits : view[p].form.at = e.at /\ EditByte(p, e.to)
                        \/ Restore(p)
    \/ \E p \in Scans : ChangeQuery(p)

\* A fetch is answered or fails in the end, and what a promise wakes is run.
Fairness ==
    /\ WF_vars(ReaderSettles)
    /\ \A p \in Panels : WF_vars(Mount(p)) /\ WF_vars(SomeFetchSettles(p)) /\ WF_vars(Resume(p))

Spec == Init /\ [][Next]_vars /\ Fairness

-----------------------------------------------------------------------------
\* The file a panel goes by.
FileOf(p) == files[view[p].id]

\* Unless a call has trapped, a view shows the bytes of the file it was given last as they are
\* now, those the fixture has unless they were changed here; and a query is asked of the bytes
\* the fixture has: what is changed in one panel is never seen in another, whatever file both
\* have open and however their answers come (pl_load, FileViews, mountScan).
PanelsShowTheirFiles ==
    ~borrowed =>
        /\ \A p \in Views : view[p].id # NoFile =>
              /\ FileOf(p).name = view[p].name
              /\ view[p].shown = FileOf(p).bytes
              /\ view[p].edited \/ FileOf(p).bytes = Content[view[p].name]
        /\ \A p \in Scans : view[p].id # NoFile =>
              /\ FileOf(p) = [name |-> view[p].name, bytes |-> Content[view[p].name]]
              /\ view[p].shown = FileOf(p).bytes

\* Every panel is ready or says that it is not, and every choice has its file opened or is given
\* up (mount, Fixtures.get).
EveryChoiceSettles ==
    \A p \in Panels : /\ <>(ready[p] # "loading")
                      /\ waiting[p] # <<>> ~> waiting[p] = <<>>

\* "The change is made to the file inside the WebAssembly module, and every panel is recomputed
\* from the damaged file" (inspector.js): what a view shows is its file as it is.
RecomputedFromTheFile ==
    \A p \in Views : view[p].id # NoFile => view[p].shown = FileOf(p).bytes
=============================================================================
