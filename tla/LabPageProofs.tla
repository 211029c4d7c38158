---------------------------- MODULE LabPageProofs ----------------------------
(***************************************************************************)
(* For any panels, fixtures, edits and outcomes: unless a call has         *)
(* trapped, every panel shows its own file as it is.                       *)
(*                                                                         *)
(* What is shown is right because no two panels have a file of the         *)
(* module's in common: each opens a new one, and only changes its own.     *)
(***************************************************************************)
EXTENDS LabPage, TLAPS, SequenceTheorems

USE LabAssumption

FileType == [name : Names, bytes : Seq(Nat)]
FormType == [at : Nat, restore : BOOLEAN]
ViewType == [name : Names \cup {""}, original : Seq(Nat), id : Nat, edited : BOOLEAN,
             bytes : Seq(Nat), shown : Seq(Nat), form : FormType]

\* A view's file is its own, read, drawn and, if it is not edited, as it was fetched.
ViewIsGood(fs, v) ==
    v.id # NoFile =>
        /\ fs[v.id].name = v.name
        /\ v.original = Content[v.name]
        /\ v.bytes = fs[v.id].bytes /\ v.shown = fs[v.id].bytes
        /\ Len(fs[v.id].bytes) = Len(Content[v.name])
        /\ v.edited \/ fs[v.id].bytes = Content[v.name]

ScanIsGood(fs, v) ==
    v.id # NoFile =>
        /\ fs[v.id] = [name |-> v.name, bytes |-> Content[v.name]]
        /\ v.shown = fs[v.id].bytes

IsGood(p, fs, v) == IF p \in Views THEN ViewIsGood(fs, v) ELSE ScanIsGood(fs, v)

\* Nothing is drawn, and so nothing selected, before a file is loaded.
Blank(v) == v.id = NoFile => v.shown = Empty /\ v.form = NoForm

LabTypes ==
    /\ files \in Seq(FileType) /\ borrowed \in BOOLEAN
    /\ view \in [Panels -> ViewType]
    /\ waiting \in [Panels -> Seq(Names)]

FilesAreOwned ==
    /\ \A p \in Panels : view[p].id \in 0 .. Len(files)
    /\ \A p, q \in Panels : p # q /\ view[p].id # NoFile => view[p].id # view[q].id

LabIInv ==
    /\ LabTypes
    /\ FilesAreOwned
    /\ \A p \in Views : Blank(view[p])
    /\ ~borrowed => \A p \in Panels : IsGood(p, files, view[p])

(***************************************************************************)
(* The calls of the module                                                 *)
(***************************************************************************)

\* What a call of panel p may do: change its own file, or add one that becomes its own.
KeepsOthers(p, r) ==
    /\ r.files \in Seq(FileType) /\ r.borrowed \in BOOLEAN /\ r.view \in ViewType
    /\ Len(r.files) >= Len(files)
    /\ r.view.id = view[p].id \/ (r.view.id = Len(files) + 1 /\ Len(r.files) = Len(files) + 1)
    /\ \A i \in 1 .. Len(files) : i # view[p].id => r.files[i] = files[i]
    /\ p \in Views => Blank(r.view)
    /\ ~r.borrowed => ~borrowed /\ IsGood(p, r.files, r.view)

LEMMA CallKeepsInv ==
    ASSUME LabIInv, NEW p \in Panels, NEW r, KeepsOthers(p, r), Becomes(p, r),
           waiting' \in [Panels -> Seq(Names)]
    PROVE  LabIInv'
<1>1. /\ files' = r.files /\ borrowed' = r.borrowed
      /\ view' \in [Panels -> ViewType]
      /\ view'[p] = r.view
      /\ \A q \in Panels : q # p => view'[q] = view[q]
  BY DEF Becomes, KeepsOthers, LabIInv, LabTypes
<1>2. LabTypes'
  BY <1>1 DEF LabTypes, KeepsOthers
<1>3. Len(files) \in Nat /\ Len(r.files) \in Nat
  BY DEF LabIInv, LabTypes, KeepsOthers
<1>4. FilesAreOwned'
  <2>1. /\ \A q \in Panels : view[q].id \in 0 .. Len(files)
        /\ \A q, s \in Panels : q # s /\ view[q].id # 0 => view[q].id # view[s].id
    BY DEF LabIInv, FilesAreOwned, NoFile
  <2>2. /\ r.view.id = view[p].id \/ (r.view.id = Len(files) + 1 /\ Len(r.files) = Len(files) + 1)
        /\ Len(r.files) >= Len(files)
    BY DEF KeepsOthers
  <2>3. /\ view'[p].id \in 0 .. Len(files')
        /\ \A q \in Panels : q # p => view'[q].id # view'[p].id \/ view'[p].id = 0
    <3>1. CASE r.view.id = view[p].id
      <4>1. view'[p].id = view[p].id
        BY <1>1, <3>1
      <4>2. ASSUME NEW q \in Panels, q # p
            PROVE  view'[q].id # view'[p].id \/ view'[p].id = 0
        <5>1. view'[q].id = view[q].id
          BY <1>1, <4>2
        <5>2. view[p].id # 0 => view[p].id # view[q].id
          BY <2>1, <4>2
        <5>3. QED
          BY <4>1, <5>1, <5>2
      <4>3. view[p].id \in 0 .. Len(files) /\ Len(files') = Len(r.files)
        BY <1>1, <2>1
      <4>4. view'[p].id \in 0 .. Len(files')
        BY <1>3, <2>2, <4>1, <4>3
      <4>5. QED
        BY <4>2, <4>4
    <3>2. CASE r.view.id = Len(files) + 1 /\ Len(r.files) = Len(files) + 1
      <4>1. view'[p].id = Len(files) + 1 /\ Len(files') = Len(files) + 1
        BY <1>1, <3>2
      <4>2. ASSUME NEW q \in Panels, q # p
            PROVE  view'[q].id # Len(files) + 1
        <5>1. view'[q].id \in 0 .. Len(files)
          BY <1>1, <2>1, <4>2
        <5>2. QED
          BY <1>3, <5>1
      <4>3. QED
        BY <1>3, <4>1, <4>2
    <3>3. QED
      BY <2>2, <3>1, <3>2
  <2>4. ASSUME NEW q \in Panels, q # p
        PROVE  /\ view'[q].id \in 0 .. Len(files')
               /\ view'[q].id # 0 => view'[q].id # view'[p].id
               /\ \A s \in Panels \ {p} : q # s /\ view'[q].id # 0 => view'[q].id # view'[s].id
    <3>1. view'[q] = view[q] /\ \A s \in Panels \ {p} : view'[s] = view[s]
      BY <1>1, <2>4
    <3>2. Len(files') >= Len(files) /\ Len(files') \in Nat /\ view[q].id \in 0 .. Len(files)
      BY <1>1, <1>3, <2>1, <2>2
    <3>3. view'[q].id \in 0 .. Len(files')
      BY <1>3, <3>1, <3>2
    <3>4. QED
      BY <2>1, <2>3, <2>4, <3>1, <3>3
  <2>5. QED
    BY <2>3, <2>4, Zenon DEF FilesAreOwned, NoFile
<1>5. \A q \in Views : Blank(view'[q])
  BY <1>1 DEF LabIInv, KeepsOthers, Panels
<1>6. ASSUME ~borrowed', NEW q \in Panels
      PROVE  IsGood(q, files', view'[q])
  <2>1. CASE q = p
    BY <1>1, <1>6, <2>1 DEF KeepsOthers
  <2>2. CASE q # p
    <3>1. IsGood(q, files, view[q])
      BY <1>1, <1>6 DEF KeepsOthers, LabIInv
    <3>2. view[q].id # 0 => view[q].id \in 1 .. Len(files) /\ view[q].id # view[p].id
      BY <2>2, <1>3 DEF LabIInv, FilesAreOwned, NoFile
    <3>3. view[q].id # NoFile => r.files[view[q].id] = files[view[q].id]
      BY <3>2 DEF KeepsOthers, NoFile
    <3>4. QED
      BY <1>1, <2>2, <3>1, <3>3 DEF IsGood, ViewIsGood, ScanIsGood
  <2>3. QED
    BY <2>1, <2>2
<1>7. QED
  BY <1>2, <1>4, <1>5, <1>6 DEF LabIInv

\* What Refresh makes of a view whose file is there: all of it, or a trap.
Refreshed(fs, b, v, r) ==
    /\ r.files = fs /\ r.borrowed \in BOOLEAN /\ r.threw \in BOOLEAN
    /\ r.view \in ViewType
    /\ r.view.id = v.id /\ r.view.name = v.name /\ r.view.original = v.original
    /\ r.view.edited = v.edited /\ r.view.form = v.form
    /\ r.view.bytes = fs[v.id].bytes
    /\ ~r.borrowed => ~b /\ ~r.threw /\ r.view.shown = fs[v.id].bytes

LEMMA RefreshShows ==
    ASSUME NEW fs \in Seq(FileType), NEW b \in BOOLEAN, NEW v \in ViewType, v.id \in 1 .. Len(fs)
    PROVE  Refreshed(fs, b, v, Refresh(fs, b, v))
<1> DEFINE bytes == fs[v.id].bytes
           read == [v EXCEPT !.bytes = bytes]
           drawn == [read EXCEPT !.shown = bytes]
<1>1. fs[v.id] \in FileType
  OBVIOUS
<1>2. bytes \in Seq(Nat)
  BY <1>1 DEF FileType
<1>3. /\ read \in ViewType /\ read.id = v.id /\ read.name = v.name /\ read.original = v.original
      /\ read.edited = v.edited /\ read.form = v.form /\ read.bytes = bytes
  BY <1>2 DEF ViewType
<1>4. /\ drawn \in ViewType /\ drawn.id = v.id /\ drawn.name = v.name /\ drawn.original = v.original
      /\ drawn.edited = v.edited /\ drawn.form = v.form /\ drawn.bytes = bytes /\ drawn.shown = bytes
  BY <1>2, <1>3 DEF ViewType
<1>5. CASE Shows(fs, b, v)
  <2>1. ~b
    BY <1>5 DEF Shows
  <2>2. Refresh(fs, b, v) = [files |-> fs, borrowed |-> FALSE, view |-> drawn, threw |-> FALSE]
    BY <1>5, <2>1 DEF Refresh, Result
  <2> HIDE DEF drawn
  <2>3. QED
    BY <2>1, <2>2, <1>4 DEF Refreshed
<1>6. CASE ~Shows(fs, b, v)
  <2>1. (b \/ Outcome(bytes) = "panics") = TRUE
    BY <1>6 DEF Shows
  <2>2. Refresh(fs, b, v) = [files |-> fs, borrowed |-> TRUE, view |-> read, threw |-> TRUE]
    BY <1>6, <2>1, Zenon DEF Refresh, Result
  <2> HIDE DEF read
  <2>3. QED
    BY <2>2, <1>3 DEF Refreshed
<1>7. QED
  BY <1>5, <1>6

\* A loaded file comes after the others.
LEMMA LoadAppends ==
    ASSUME NEW fs \in Seq(FileType), NEW name \in Names
    PROVE  /\ Load(fs, name).files \in Seq(FileType)
           /\ Len(Load(fs, name).files) = Len(fs) + 1 /\ Load(fs, name).id = Len(fs) + 1
           /\ Load(fs, name).files[Len(fs) + 1] = [name |-> name, bytes |-> Content[name]]
           /\ \A i \in 1 .. Len(fs) : Load(fs, name).files[i] = fs[i]
<1>1. [name |-> name, bytes |-> Content[name]] \in FileType
  BY DEF FileType
<1>2. QED
  BY <1>1 DEF Load

LEMMA OpenViewIsSafe ==
    ASSUME LabIInv, NEW p \in Views, NEW name \in Names
    PROVE  KeepsOthers(p, OpenView(view[p], name))
<1> DEFINE v == view[p]
           named == [v EXCEPT !.name = name, !.original = Content[name]]
           load == Load(files, name)
           opened == [named EXCEPT !.id = load.id, !.edited = FALSE, !.form = NoForm]
<1>1. p \in Panels /\ v \in ViewType /\ files \in Seq(FileType) /\ borrowed \in BOOLEAN
  BY DEF LabIInv, LabTypes, Panels
<1>2. named \in ViewType /\ named.id = v.id /\ named.shown = v.shown /\ named.form = v.form
  BY <1>1 DEF ViewType
<1>3. CASE borrowed
  <2>1. OpenView(v, name) = [files |-> files, borrowed |-> TRUE, view |-> named, threw |-> TRUE]
    BY <1>1, <1>3 DEF OpenView, Result
  <2>2. Blank(named)
    BY <1>2 DEF LabIInv, Blank
  <2> HIDE DEF named
  <2>3. Len(files) \in Nat
    BY <1>1
  <2>4. QED
    BY <1>1, <1>2, <2>1, <2>2, <2>3 DEF KeepsOthers
<1>4. CASE ~borrowed
  <2>1. OpenView(v, name) = Refresh(load.files, borrowed, opened)
    BY <1>4 DEF OpenView
  <2>2. /\ load.files \in Seq(FileType) /\ Len(load.files) = Len(files) + 1 /\ load.id = Len(files) + 1
        /\ load.files[load.id] = [name |-> name, bytes |-> Content[name]]
        /\ \A i \in 1 .. Len(files) : load.files[i] = files[i]
    BY <1>1, LoadAppends
  <2> HIDE DEF load
  <2>3. Len(files) \in Nat /\ load.id \in 1 .. Len(load.files) /\ load.id # 0 /\ load.id \in Nat
    BY <1>1, <2>2
  <2>4. NoForm \in FormType
    BY DEF NoForm, FormType
  <2>5. /\ opened \in ViewType /\ opened.id = load.id /\ opened.name = name
        /\ opened.original = Content[name] /\ opened.edited = FALSE
    <3> HIDE DEF named
    <3>1. /\ opened.id = load.id /\ opened.edited = FALSE /\ opened \in ViewType
          /\ opened.name = named.name /\ opened.original = named.original
      BY <1>2, <2>3, <2>4 DEF ViewType
    <3>2. QED
      BY <1>1, <3>1 DEF named, ViewType
  <2> DEFINE r == Refresh(load.files, borrowed, opened)
  <2> HIDE DEF opened
  <2>6. Refreshed(load.files, borrowed, opened, r)
    BY <1>1, <2>2, <2>3, <2>5, RefreshShows
  <2> HIDE DEF r
  <2>7. Blank(r.view)
    BY <2>3, <2>5, <2>6 DEF Blank, NoFile, Refreshed
  <2>8. ~r.borrowed => IsGood(p, r.files, r.view)
    BY <2>2, <2>5, <2>6 DEF IsGood, ViewIsGood, Refreshed
  <2>9. KeepsOthers(p, r)
    BY <1>1, <2>2, <2>3, <2>5, <2>6, <2>7, <2>8 DEF KeepsOthers, Refreshed
  <2>10. QED
    BY <2>1, <2>9 DEF r
<1>5. QED
  BY <1>1, <1>3, <1>4

WithBytes(fs, id, bs) == [fs EXCEPT ![id].bytes = bs]

\* Other bytes of one file: the rest stays as it is.
LEMMA BytesChange ==
    ASSUME NEW fs \in Seq(FileType), NEW id \in 1 .. Len(fs), NEW bs \in Seq(Nat)
    PROVE  /\ WithBytes(fs, id, bs) \in Seq(FileType)
           /\ Len(WithBytes(fs, id, bs)) = Len(fs)
           /\ WithBytes(fs, id, bs)[id] = [name |-> fs[id].name, bytes |-> bs]
           /\ \A i \in 1 .. Len(fs) : i # id => WithBytes(fs, id, bs)[i] = fs[i]
<1> DEFINE f == [fs[id] EXCEPT !.bytes = bs]
<1>1. fs[id] \in FileType
  OBVIOUS
<1>2. f = [name |-> fs[id].name, bytes |-> bs] /\ f \in FileType
  <2>1. fs[id] = [name |-> fs[id].name, bytes |-> fs[id].bytes] /\ fs[id].name \in Names
    BY <1>1 DEF FileType
  <2>2. f = [name |-> fs[id].name, bytes |-> bs]
    BY <2>1
  <2> HIDE DEF f
  <2>3. QED
    BY <2>1, <2>2 DEF FileType
<1>3. WithBytes(fs, id, bs) = [fs EXCEPT ![id] = f]
  BY DEF WithBytes
<1> HIDE DEF f
<1>4. /\ [fs EXCEPT ![id] = f] \in Seq(FileType) /\ Len([fs EXCEPT ![id] = f]) = Len(fs)
      /\ [fs EXCEPT ![id] = f][id] = f
      /\ \A i \in 1 .. Len(fs) : i # id => [fs EXCEPT ![id] = f][i] = fs[i]
  BY <1>2
<1>5. QED
  BY <1>2, <1>3, <1>4

\* One byte for each byte there was.
LEMMA ReplacedBytes ==
    ASSUME NEW old \in Seq(Nat), NEW new \in [DOMAIN old -> Nat]
    PROVE  new \in Seq(Nat) /\ Len(new) = Len(old)
<1>1. DOMAIN old = 1 .. Len(old) /\ Len(old) \in Nat
  OBVIOUS
<1>2. new \in [1 .. Len(old) -> Nat]
  BY <1>1
<1>3. QED
  BY <1>1, <1>2

\* A file of bytes that a view's fields describe, drawn again.
LEMMA RefreshIsSafe ==
    ASSUME LabIInv, NEW p \in Views, NEW bs \in Seq(Nat), NEW edited \in BOOLEAN,
           view[p].id # NoFile,
           ~borrowed => /\ Len(bs) = Len(files[view[p].id].bytes)
                        /\ edited \/ bs = Content[view[p].name]
    PROVE  LET r == Refresh(WithBytes(files, view[p].id, bs), borrowed,
                            [view[p] EXCEPT !.edited = edited])
           IN  KeepsOthers(p, r) /\ r.view.id = view[p].id /\ r.threw \in BOOLEAN /\ (r.threw => r.borrowed)
<1> DEFINE v == view[p]
           fs == WithBytes(files, v.id, bs)
           w == [v EXCEPT !.edited = edited]
           r == Refresh(fs, borrowed, w)
<1>1. /\ p \in Panels /\ v \in ViewType /\ files \in Seq(FileType) /\ borrowed \in BOOLEAN
      /\ v.id \in 1 .. Len(files)
  BY DEF LabIInv, LabTypes, FilesAreOwned, Panels, NoFile
<1>2. /\ fs \in Seq(FileType) /\ Len(fs) = Len(files)
      /\ fs[v.id] = [name |-> files[v.id].name, bytes |-> bs]
      /\ \A i \in 1 .. Len(files) : i # v.id => fs[i] = files[i]
  BY <1>1, BytesChange
<1>3. /\ w \in ViewType /\ w.id = v.id /\ w.name = v.name /\ w.original = v.original
      /\ w.edited = edited /\ w.form = v.form
  BY <1>1 DEF ViewType
<1> HIDE DEF fs, w
<1>4. Refreshed(fs, borrowed, w, r)
  BY <1>1, <1>2, <1>3, RefreshShows
<1> HIDE DEF r
<1>5. Blank(r.view)
  BY <1>3, <1>4 DEF Blank, Refreshed
<1>6. ASSUME ~r.borrowed
      PROVE  IsGood(p, r.files, r.view)
  <2>1. ViewIsGood(files, v) /\ ~borrowed
    BY <1>1, <1>4, <1>6 DEF Refreshed, LabIInv, IsGood
  <2>2. QED
    BY <1>2, <1>3, <1>4, <1>6, <2>1 DEF IsGood, ViewIsGood, Refreshed
<1>7. Len(files) \in Nat
  BY <1>1
<1>8. KeepsOthers(p, r)
  BY <1>1, <1>2, <1>3, <1>4, <1>5, <1>6, <1>7 DEF KeepsOthers, Refreshed
<1>9. QED
  BY <1>3, <1>4, <1>8 DEF Refreshed, r, fs, w

\* Nothing changes when a call traps at once.
LEMMA TrappedIsSafe ==
    ASSUME LabIInv, NEW p \in Panels, borrowed, NEW v \in ViewType, v.id = view[p].id,
           p \in Views => Blank(v)
    PROVE  KeepsOthers(p, Result(files, borrowed, v, TRUE))
BY DEF KeepsOthers, Result, LabIInv, LabTypes

LEMMA EditedIsSafe ==
    ASSUME LabIInv, NEW p \in Views, NEW to \in Nat, view[p].form # NoForm
    PROVE  KeepsOthers(p, Edited(view[p], to))
<1> DEFINE v == view[p]
           old == files[v.id].bytes
           bs == [i \in DOMAIN old |-> IF i = v.form.at THEN to ELSE old[i]]
           r == Refresh(WithBytes(files, v.id, bs), borrowed, [v EXCEPT !.edited = TRUE])
<1>1. p \in Panels /\ v \in ViewType /\ files \in Seq(FileType) /\ borrowed \in BOOLEAN /\ Blank(v)
  BY DEF LabIInv, LabTypes, Panels
<1>2. v.id # NoFile /\ v.id \in 1 .. Len(files)
  BY <1>1 DEF LabIInv, FilesAreOwned, NoFile, Blank
<1>3. files[v.id] \in FileType
  BY <1>1, <1>2
<1>4. old \in Seq(Nat)
  BY <1>3 DEF FileType
<1>5. bs \in Seq(Nat) /\ Len(bs) = Len(old)
  <2>1. bs \in [DOMAIN old -> Nat]
    BY <1>4
  <2>2. QED
    BY <1>4, <2>1, ReplacedBytes
<1>6. KeepsOthers(p, r) /\ r.view.id = v.id /\ r.threw \in BOOLEAN /\ (r.threw => r.borrowed)
  BY <1>2, <1>5, RefreshIsSafe
<1>7. WithByte(files, v.id, v.form.at, to) = WithBytes(files, v.id, bs)
  BY DEF WithByte, WithBytes
<1>8. Edited(v, to) = IF borrowed THEN Result(files, borrowed, v, TRUE)
                      ELSE IF r.threw THEN r ELSE [r EXCEPT !.view.form.restore = TRUE]
  BY <1>7 DEF Edited
<1>9. CASE borrowed
  BY <1>1, <1>8, <1>9, TrappedIsSafe
<1>10. CASE ~borrowed /\ r.threw
  BY <1>6, <1>8, <1>10
<1>11. CASE ~borrowed /\ ~r.threw
  <2> DEFINE form == [r.view.form EXCEPT !.restore = TRUE]
             w == [r.view EXCEPT !.form = form]
             s == [r EXCEPT !.view = w]
  <2>1. Edited(v, to) = s
    BY <1>8, <1>11
  <2>2. r = [files |-> r.files, borrowed |-> r.borrowed, view |-> r.view, threw |-> r.threw]
    BY DEF Refresh, Result
  <2> HIDE DEF r
  <2>3. r.view \in ViewType /\ r.view.form \in FormType
    BY <1>6 DEF KeepsOthers, ViewType
  <2>4. form \in FormType
    BY <2>3 DEF FormType
  <2> HIDE DEF form
  <2>5. /\ w \in ViewType /\ w.id = r.view.id /\ w.name = r.view.name
        /\ w.original = r.view.original /\ w.edited = r.view.edited
        /\ w.bytes = r.view.bytes /\ w.shown = r.view.shown
    BY <2>3, <2>4 DEF ViewType
  <2> HIDE DEF w
  <2>6. s.files = r.files /\ s.borrowed = r.borrowed /\ s.view = w
    BY <2>2
  <2> HIDE DEF s
  <2>7. Blank(w)
    BY <1>2, <1>6, <2>5 DEF Blank
  <2>8. ~r.borrowed => IsGood(p, r.files, w)
    BY <1>6, <2>5 DEF KeepsOthers, IsGood, ViewIsGood
  <2>9. KeepsOthers(p, s)
    BY <1>6, <2>5, <2>6, <2>7, <2>8 DEF KeepsOthers
  <2>10. QED
    BY <2>1, <2>9
<1>12. QED
  BY <1>1, <1>9, <1>10, <1>11

LEMMA RestoredIsSafe ==
    ASSUME LabIInv, NEW p \in Views, view[p].form.restore
    PROVE  KeepsOthers(p, Restored(view[p]))
<1> DEFINE v == view[p]
           old == files[v.id].bytes
           bs == [i \in DOMAIN old |-> IF i \in Differs(v) THEN v.original[i] ELSE old[i]]
           r == Refresh(WithBytes(files, v.id, bs), borrowed, [v EXCEPT !.edited = FALSE])
<1>1. p \in Panels /\ v \in ViewType /\ files \in Seq(FileType) /\ borrowed \in BOOLEAN /\ Blank(v)
  BY DEF LabIInv, LabTypes, Panels
<1>2. v.id # NoFile /\ v.id \in 1 .. Len(files)
  BY <1>1 DEF LabIInv, FilesAreOwned, NoFile, NoForm, Blank
<1>3. files[v.id] \in FileType
  BY <1>1, <1>2
<1>4. old \in Seq(Nat) /\ v.original \in Seq(Nat)
  BY <1>1, <1>3 DEF FileType, ViewType
<1>5. bs \in Seq(Nat) /\ Len(bs) = Len(old)
  <2>1. bs \in [DOMAIN old -> Nat]
    <3>1. /\ \A i \in DOMAIN old : old[i] \in Nat
          /\ \A i \in DOMAIN v.original : v.original[i] \in Nat
          /\ \A i \in Differs(v) : i \in DOMAIN v.original
      BY <1>4 DEF Differs
    <3>2. QED
      BY <3>1
  <2>2. QED
    BY <1>4, <2>1, ReplacedBytes
<1>6. ASSUME ~borrowed
      PROVE  bs = Content[v.name]
  <2>1. ViewIsGood(files, v)
    BY <1>1, <1>6 DEF LabIInv, IsGood
  <2>2. v.original = Content[v.name] /\ v.bytes = old /\ Len(old) = Len(v.original)
    BY <1>2, <2>1 DEF ViewIsGood
  <2>3. DOMAIN old = 1 .. Len(old) /\ DOMAIN v.original = DOMAIN old
    BY <1>4, <2>2
  <2>4. \A i \in DOMAIN old : bs[i] = v.original[i]
    BY <2>2, <2>3 DEF Differs
  <2>5. bs = v.original
    <3>1. Len(bs) = Len(v.original) /\ \A i \in 1 .. Len(bs) : bs[i] = v.original[i]
      BY <1>5, <2>2, <2>3, <2>4
    <3> HIDE DEF bs
    <3>2. QED
      BY <1>4, <1>5, <3>1, SeqEqual
  <2>6. QED
    BY <2>2, <2>5
<1>7. KeepsOthers(p, r)
  BY <1>2, <1>5, <1>6, RefreshIsSafe
<1>8. Restored(v) = IF borrowed /\ Differs(v) # {} THEN Result(files, borrowed, v, TRUE) ELSE r
  BY DEF Restored, WithBytes
<1>9. CASE borrowed /\ Differs(v) # {}
  BY <1>1, <1>8, <1>9, TrappedIsSafe
<1>10. CASE ~(borrowed /\ Differs(v) # {})
  BY <1>7, <1>8, <1>10
<1>11. QED
  BY <1>9, <1>10

\* What Scan makes of a query's panel.
Asked(fs, b, v, r) ==
    /\ r.files = fs /\ r.borrowed \in BOOLEAN
    /\ r.view \in ViewType /\ r.view.id = v.id /\ r.view.name = v.name
    /\ ~r.borrowed => ~b /\ (v.id # NoFile => r.view.shown = fs[v.id].bytes)

\* A query leaves every file as it is, and shows its own.
LEMMA ScanShows ==
    ASSUME NEW fs \in Seq(FileType), NEW b \in BOOLEAN, NEW v \in ViewType, v.id \in 0 .. Len(fs)
    PROVE  Asked(fs, b, v, Scan(fs, b, v))
<1> DEFINE id == IF v.id = NoFile THEN 1 ELSE v.id
           bytes == fs[id].bytes
<1>1. v.id # NoFile => id = v.id /\ id \in DOMAIN fs
  BY DEF NoFile
<1>2. Empty \in Seq(Nat)
  BY DEF Empty
<1> HIDE DEF id
<1>3. CASE id \notin DOMAIN fs
  <2> DEFINE w == [v EXCEPT !.shown = IF b THEN @ ELSE Empty]
  <2>1. Scan(fs, b, v) = [files |-> fs, borrowed |-> b, view |-> w, threw |-> b]
    BY <1>3 DEF Scan, Result, id
  <2>2. w \in ViewType /\ w.id = v.id /\ w.name = v.name
    BY <1>2 DEF ViewType
  <2> HIDE DEF w
  <2>3. QED
    BY <1>1, <1>3, <2>1, <2>2 DEF Asked
<1>4. CASE id \in DOMAIN fs /\ Outcome(bytes) # "panics" /\ ~b
  <2> DEFINE w == [v EXCEPT !.shown = bytes]
  <2>1. Scan(fs, b, v) = [files |-> fs, borrowed |-> b, view |-> w, threw |-> FALSE]
    BY <1>4 DEF Scan, Result, id
  <2>2. bytes \in Seq(Nat)
    <3>1. fs[id] \in FileType
      BY <1>4
    <3>2. QED
      BY <3>1 DEF FileType
  <2>3. w \in ViewType /\ w.id = v.id /\ w.name = v.name /\ w.shown = bytes
    BY <2>2 DEF ViewType
  <2> HIDE DEF w
  <2>4. QED
    BY <1>1, <1>4, <2>1, <2>3 DEF Asked
<1>5. CASE id \in DOMAIN fs /\ ~(Outcome(bytes) # "panics" /\ ~b)
  <2>1. (b \/ Outcome(bytes) = "panics") = TRUE
    BY <1>5
  <2>2. Scan(fs, b, v) = [files |-> fs, borrowed |-> TRUE, view |-> v, threw |-> TRUE]
    BY <1>5, <2>1 DEF Scan, Result, id
  <2>3. QED
    BY <2>2 DEF Asked
<1>6. QED
  BY <1>3, <1>4, <1>5

LEMMA QueryIsSafe ==
    ASSUME LabIInv, NEW p \in Scans
    PROVE  KeepsOthers(p, Scan(files, borrowed, view[p]))
<1> DEFINE v == view[p]
           r == Scan(files, borrowed, v)
<1>1. /\ p \in Panels /\ p \notin Views /\ v \in ViewType /\ files \in Seq(FileType)
      /\ borrowed \in BOOLEAN /\ v.id \in 0 .. Len(files)
  BY DEF LabIInv, LabTypes, FilesAreOwned, Panels
<1>2. /\ r.files = files /\ r.borrowed \in BOOLEAN
      /\ r.view \in ViewType /\ r.view.id = v.id /\ r.view.name = v.name
      /\ ~r.borrowed => ~borrowed /\ (v.id # NoFile => r.view.shown = files[v.id].bytes)
  BY <1>1, ScanShows DEF Asked
<1> HIDE DEF r
<1>3. ~r.borrowed => IsGood(p, r.files, r.view)
  BY <1>1, <1>2 DEF LabIInv, IsGood, ScanIsGood
<1>4. Len(files) \in Nat
  BY <1>1
<1>5. KeepsOthers(p, r)
  BY <1>1, <1>2, <1>3, <1>4 DEF KeepsOthers
<1>6. QED
  BY <1>5 DEF r

LEMMA OpenScanIsSafe ==
    ASSUME LabIInv, NEW p \in Scans, NEW name \in Names
    PROVE  KeepsOthers(p, OpenScan(view[p], name))
<1> DEFINE v == view[p]
           load == Load(files, name)
           opened == [v EXCEPT !.name = name, !.original = Content[name], !.id = load.id]
           r == Scan(load.files, borrowed, opened)
<1>1. /\ p \in Panels /\ p \notin Views /\ v \in ViewType /\ files \in Seq(FileType)
      /\ borrowed \in BOOLEAN
  BY DEF LabIInv, LabTypes, Panels
<1>2. CASE borrowed
  <2>1. OpenScan(v, name) = Result(files, borrowed, v, TRUE)
    BY <1>2 DEF OpenScan
  <2>2. p \in Views => Blank(v)
    BY <1>1
  <2>3. KeepsOthers(p, Result(files, borrowed, v, TRUE))
    BY <1>1, <1>2, <2>2, TrappedIsSafe
  <2>4. QED
    BY <2>1, <2>3
<1>3. CASE ~borrowed
  <2>0. OpenScan(v, name) = r
    BY <1>3 DEF OpenScan
  <2>1. /\ load.files \in Seq(FileType) /\ Len(load.files) = Len(files) + 1 /\ load.id = Len(files) + 1
        /\ load.files[load.id] = [name |-> name, bytes |-> Content[name]]
        /\ \A i \in 1 .. Len(files) : load.files[i] = files[i]
    BY <1>1, LoadAppends
  <2> HIDE DEF load
  <2>2. Len(files) \in Nat /\ load.id \in 0 .. Len(load.files) /\ load.id # NoFile /\ load.id \in Nat
    BY <1>1, <2>1 DEF NoFile
  <2>3. opened \in ViewType /\ opened.id = load.id /\ opened.name = name
    BY <1>1, <2>2 DEF ViewType
  <2> HIDE DEF opened
  <2>4. opened.id \in 0 .. Len(load.files)
    BY <2>2, <2>3
  <2>5. /\ r.files = load.files /\ r.borrowed \in BOOLEAN
        /\ r.view \in ViewType /\ r.view.id = load.id /\ r.view.name = name
        /\ ~r.borrowed => r.view.shown = load.files[load.id].bytes
    <3>1. Asked(load.files, borrowed, opened, r)
      BY <1>1, <2>1, <2>3, <2>4, ScanShows
    <3> HIDE DEF r
    <3>2. QED
      BY <2>2, <2>3, <3>1 DEF Asked
  <2> HIDE DEF r
  <2>6. ~r.borrowed => IsGood(p, r.files, r.view)
    BY <1>1, <2>1, <2>5 DEF IsGood, ScanIsGood
  <2>7. KeepsOthers(p, r)
    BY <1>1, <1>3, <2>1, <2>2, <2>5, <2>6 DEF KeepsOthers
  <2>8. QED
    BY <2>0, <2>7
<1>4. QED
  BY <1>2, <1>3

(***************************************************************************)
(* The page's actions                                                      *)
(***************************************************************************)

\* What leaves the module and the views alone.
LEMMA NothingCalled ==
    ASSUME LabIInv, UNCHANGED <<files, borrowed, view>>, waiting' \in [Panels -> Seq(Names)]
    PROVE  LabIInv'
BY DEF LabIInv, LabTypes, FilesAreOwned, Blank, IsGood, ViewIsGood, ScanIsGood

LEMMA WaitingIsTyped ==
    ASSUME LabIInv, NEW p \in Panels, NEW name \in Names, Await(p, name)
    PROVE  waiting' \in [Panels -> Seq(Names)]
<1>1. waiting \in [Panels -> Seq(Names)] /\ Append(waiting[p], name) \in Seq(Names)
  BY DEF LabIInv, LabTypes
<1>2. QED
  BY <1>1 DEF Await

LEMMA LeftIsTyped ==
    ASSUME LabIInv, NEW p \in Panels, NEW i \in DOMAIN waiting[p]
    PROVE  /\ [waiting EXCEPT ![p] = Left(p, i)] \in [Panels -> Seq(Names)]
           /\ waiting[p][i] \in Names
<1> DEFINE w == waiting[p]
<1>1. waiting \in [Panels -> Seq(Names)] /\ w \in Seq(Names)
  BY DEF LabIInv, LabTypes
<1>2. i \in 1 .. Len(w) /\ Len(w) \in Nat
  BY <1>1
<1>3. SubSeq(w, 1, i - 1) \in Seq(Names) /\ SubSeq(w, i + 1, Len(w)) \in Seq(Names)
  <2>1. \A j \in 1 .. i - 1 : w[j] \in Names
    BY <1>1, <1>2
  <2>2. \A j \in i + 1 .. Len(w) : w[j] \in Names
    BY <1>1, <1>2
  <2>3. QED
    BY <1>1, <1>2, <2>1, <2>2, SubSeqProperties
<1>4. Left(p, i) \in Seq(Names)
  BY <1>3, ConcatProperties DEF Left
<1>5. QED
  BY <1>1, <1>2, <1>4

LEMMA MountKeeps ==
    ASSUME LabIInv, NEW p \in Panels, Mount(p)
    PROVE  LabIInv'
<1>1. Initial[p] \in Names
  OBVIOUS
<1>2. waiting' \in [Panels -> Seq(Names)]
  BY <1>1, WaitingIsTyped DEF Mount, LabIInv, LabTypes
<1>3. QED
  BY <1>2, NothingCalled DEF Mount

LEMMA ResumeKeeps ==
    ASSUME LabIInv, NEW p \in Panels, Resume(p)
    PROVE  LabIInv'
<1>1. PICK i \in DOMAIN waiting[p] : ResumeView(p, i) \/ ResumeScan(p, i)
  BY DEF Resume
<1>2. waiting[p][i] \in Names
  BY LeftIsTyped
<1>3. waiting' \in [Panels -> Seq(Names)]
  <2>1. waiting' = [waiting EXCEPT ![p] = Left(p, i)]
    BY <1>1 DEF ResumeView, ResumeScan
  <2>2. QED
    BY <2>1, LeftIsTyped
<1>4. CASE UNCHANGED <<files, borrowed, view>>
  BY <1>3, <1>4, NothingCalled
<1>5. CASE p \in Views /\ Becomes(p, OpenView(view[p], waiting[p][i]))
  BY <1>2, <1>3, <1>5, OpenViewIsSafe, CallKeepsInv
<1>6. CASE p \in Scans /\ Becomes(p, OpenScan(view[p], waiting[p][i]))
  BY <1>2, <1>3, <1>6, OpenScanIsSafe, CallKeepsInv
<1>7. QED
  BY <1>1, <1>4, <1>5, <1>6 DEF ResumeView, ResumeScan

LEMMA SelectByteKeeps ==
    ASSUME LabIInv, NEW p \in Views, NEW at, SelectByte(p, at)
    PROVE  LabIInv'
<1> DEFINE v == view[p]
           form == [at |-> at, restore |-> v.edited]
           w == [v EXCEPT !.form = form]
           r == Result(files, borrowed, w, FALSE)
<1>1. /\ p \in Panels /\ v \in ViewType /\ files \in Seq(FileType) /\ borrowed \in BOOLEAN
      /\ view \in [Panels -> ViewType] /\ Blank(v)
      /\ waiting' \in [Panels -> Seq(Names)]
  BY DEF LabIInv, LabTypes, Panels, SelectByte
<1>2. CASE borrowed
  BY <1>1, <1>2, NothingCalled DEF SelectByte
<1>3. CASE ~borrowed
  <2>1. v.shown \in Seq(Nat) /\ v.edited \in BOOLEAN /\ at \in DOMAIN v.shown
    BY <1>1 DEF ViewType, SelectByte
  <2>2. at \in Nat /\ v.shown # Empty
    BY <2>1 DEF Empty
  <2>3. v.id # NoFile
    BY <1>1, <2>2 DEF Blank
  <2>4. form \in FormType
    BY <2>1, <2>2 DEF FormType
  <2>5. view' = [view EXCEPT ![p] = w] /\ UNCHANGED <<files, borrowed>>
    BY <1>3 DEF SelectByte
  <2> HIDE DEF form
  <2>6. /\ w \in ViewType /\ w.id = v.id /\ w.name = v.name /\ w.original = v.original
        /\ w.edited = v.edited /\ w.bytes = v.bytes /\ w.shown = v.shown
    BY <1>1, <2>4 DEF ViewType
  <2> HIDE DEF w
  <2>7. r.files = files /\ r.borrowed = borrowed /\ r.view = w
    BY DEF Result
  <2> HIDE DEF r
  <2>8. Blank(w)
    BY <2>3, <2>6 DEF Blank
  <2>9. IsGood(p, files, w)
    BY <1>1, <1>3, <2>6 DEF LabIInv, IsGood, ViewIsGood
  <2>10. KeepsOthers(p, r)
    BY <1>1, <1>3, <2>6, <2>7, <2>8, <2>9 DEF KeepsOthers
  <2>11. Becomes(p, r)
    BY <2>5, <2>7 DEF Becomes
  <2>12. QED
    BY <1>1, <2>10, <2>11, CallKeepsInv
<1>4. QED
  BY <1>2, <1>3

(***************************************************************************)
(* The theorems                                                            *)
(***************************************************************************)

LEMMA LabStarts ==
    Init => LabIInv
<1> SUFFICES ASSUME Init
             PROVE  LabIInv
  OBVIOUS
<1>1. NoForm \in FormType /\ Empty \in Seq(Nat)
  BY DEF NoForm, FormType, Empty
<1>2. NoView \in ViewType /\ NoView.id = NoFile /\ NoView.shown = Empty /\ NoView.form = NoForm
  BY <1>1 DEF NoView, ViewType, NoFile
<1>3. LabTypes
  <2>1. files \in Seq(FileType) /\ borrowed \in BOOLEAN
    <3>1. files = <<>> /\ borrowed = FALSE
      BY DEF Init
    <3>2. QED
      BY <3>1, EmptySeq
  <2>2. view \in [Panels -> ViewType]
    BY <1>2 DEF Init
  <2>3. waiting \in [Panels -> Seq(Names)]
    BY DEF Init
  <2>4. QED
    BY <2>1, <2>2, <2>3 DEF LabTypes
<1>4. \A p \in Panels : view[p] = NoView
  BY DEF Init
<1>5. FilesAreOwned
  BY <1>2, <1>4 DEF Init, FilesAreOwned, NoFile
<1>6. \A p \in Views : Blank(view[p])
  BY <1>2, <1>4 DEF Blank, Panels
<1>7. \A p \in Panels : IsGood(p, files, view[p])
  BY <1>2, <1>4 DEF IsGood, ViewIsGood, ScanIsGood
<1>8. QED
  BY <1>3, <1>5, <1>6, <1>7 DEF LabIInv

LEMMA LabStep ==
    LabIInv /\ [Next]_vars => LabIInv'
<1> SUFFICES ASSUME LabIInv, [Next]_vars
             PROVE  LabIInv'
  OBVIOUS
<1>1. waiting \in [Panels -> Seq(Names)]
  BY DEF LabIInv, LabTypes
<1>2. CASE ReaderSettles
  BY <1>1, <1>2, NothingCalled DEF ReaderSettles
<1>3. ASSUME NEW p \in Panels, Mount(p)
      PROVE  LabIInv'
  BY <1>3, MountKeeps
<1>4. ASSUME NEW p \in Panels, SomeFetchSettles(p)
      PROVE  LabIInv'
  BY <1>1, <1>4, NothingCalled DEF SomeFetchSettles, FetchSettles
<1>5. ASSUME NEW p \in Panels, Resume(p)
      PROVE  LabIInv'
  BY <1>5, ResumeKeeps
<1>6. ASSUME NEW p \in Views, NEW name \in Names, Choose(p, name)
      PROVE  LabIInv'
  <2>1. waiting' \in [Panels -> Seq(Names)]
    BY <1>6, WaitingIsTyped DEF Choose, Panels
  <2>2. QED
    BY <1>6, <2>1, NothingCalled DEF Choose
<1>7. ASSUME NEW p \in Views, NEW e \in Edits, SelectByte(p, e.at)
      PROVE  LabIInv'
  BY <1>7, SelectByteKeeps
<1>8. ASSUME NEW p \in Views, NEW e \in Edits, EditByte(p, e.to)
      PROVE  LabIInv'
  <2>1. e.to \in Nat /\ p \in Panels /\ waiting' = waiting
    BY <1>8 DEF Panels, EditByte
  <2>2. KeepsOthers(p, Edited(view[p], e.to))
    BY <1>8, <2>1, EditedIsSafe DEF EditByte
  <2>3. QED
    BY <1>1, <1>8, <2>1, <2>2, CallKeepsInv DEF EditByte
<1>9. ASSUME NEW p \in Views, Restore(p)
      PROVE  LabIInv'
  <2>1. p \in Panels /\ waiting' = waiting
    BY <1>9 DEF Panels, Restore
  <2>2. KeepsOthers(p, Restored(view[p]))
    BY <1>9, RestoredIsSafe DEF Restore
  <2>3. QED
    BY <1>1, <1>9, <2>1, <2>2, CallKeepsInv DEF Restore
<1>10. ASSUME NEW p \in Scans, ChangeQuery(p)
       PROVE  LabIInv'
  <2>1. p \in Panels /\ waiting' = waiting
    BY <1>10 DEF Panels, ChangeQuery
  <2>2. KeepsOthers(p, Scan(files, borrowed, view[p]))
    BY QueryIsSafe
  <2>3. QED
    BY <1>1, <1>10, <2>1, <2>2, CallKeepsInv DEF ChangeQuery
<1>11. CASE UNCHANGED vars
  BY <1>1, <1>11, NothingCalled DEF vars
<1>12. QED
  BY <1>2, <1>3, <1>4, <1>5, <1>6, <1>7, <1>8, <1>9, <1>10, <1>11 DEF Next

\* Every panel has a file of its own, of the module's, and goes by its bytes.
THEOREM LabInvariant == Spec => []LabIInv
BY LabStarts, LabStep, PTL DEF Spec

\* Unless a call has trapped, a view shows the bytes of the file it was given last as they are
\* now, and a query is asked of the bytes the fixture has (pl_load, FileViews, mountScan).
THEOREM EveryPanelShowsItsFile == Spec => []PanelsShowTheirFiles
<1>1. LabIInv => PanelsShowTheirFiles
  BY DEF LabIInv, IsGood, ViewIsGood, ScanIsGood, PanelsShowTheirFiles, FileOf, Panels
<1>2. QED
  BY <1>1, LabInvariant, PTL
=============================================================================
