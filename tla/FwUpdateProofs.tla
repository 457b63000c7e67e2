----------------------------- MODULE FwUpdateProofs -----------------------------
(***************************************************************************)
(* An update never leaves the device without a table and an image to start *)
(* from, and boot2 gives up only when there is none, whenever the device   *)
(* is reset, for any images, files and bounds.                             *)
(***************************************************************************)
EXTENDS FwUpdate, TLAPS

\* The tables are those of the active one when the other is not valid, and
\* change over when the other is written with a higher age.
LEMMA ActiveFacts ==
  ASSUME NEW t \in [Index -> Table], \E i \in Index : t[i].ok
  PROVE  ActiveOf(t) \in Index /\ t[ActiveOf(t)].ok
BY DEF ActiveOf, Newest, Index, Table

\* Writing the other table with a higher age makes it the active one.
LEMMA WriteTakesOver ==
  ASSUME NEW t \in [Index -> Table], NEW i \in Index, NEW r \in Table,
         t[i].ok, r.ok, r.age = t[i].age + 1
  PROVE  ActiveOf([t EXCEPT ![1 - i] = r]) = 1 - i
BY DEF ActiveOf, Newest, Index, Table

\* Erasing the other table leaves the active one active.
LEMMA EraseKeeps ==
  ASSUME NEW t \in [Index -> Table], NEW i \in Index, t[i].ok
  PROVE  ActiveOf([t EXCEPT ![1 - i].ok = FALSE]) = i
BY DEF ActiveOf, Newest, Index, Table

\* A flipped table is a table.
LEMMA FlipFacts ==
  ASSUME NEW t \in Table
  PROVE  /\ Flip(t) \in Table /\ Flip(t).ok = t.ok
         /\ Flip(t).age = t.age + 1 /\ Flip(t).act = 1 - t.act
<1> DEFINE u == [t EXCEPT !.act = 1 - @]
<1>1. u \in Table
  BY DEF Table, Index
<1>2. \A v \in Table : [v EXCEPT !.age = @ + 1] \in Table
  BY DEF Table, Index
<1>3. Flip(t) = [u EXCEPT !.age = @ + 1]
  BY DEF Flip
<1>4. Flip(t).age = t.age + 1 /\ Flip(t).act = 1 - t.act /\ Flip(t).ok = t.ok
  BY DEF Flip, Table, Index
<1> QED BY <1>1, <1>2, <1>3, <1>4

\* A partly written file can hold anything but an image to start.
LEMMA PartFacts ==
  ASSUME NEW c \in Contents
  PROVE  Part(c) \in Contents /\ Part(c).whole = FALSE
BY DEF Part, Contents

\* An erased region holds nothing to start.
LEMMA BlankFacts == Blank \in Contents /\ Blank.kind = "none" /\ Blank.whole = FALSE
BY DEF Blank, Contents

\* What a server offers can be written into a region.
LEMMA FilesAreContents == \A f \in Files : f \in Contents
BY FilesAssumption DEF Contents

\* The delivered device satisfies the invariant.
LEMMA InvInit == Init => IInv
<1> SUFFICES ASSUME Init PROVE IInv
  OBVIOUS
<1>1. PICK valid \in FirstTables :
        tbl = [i \in Index |-> [ok |-> i \in valid, age |-> 0, act |-> 0]]
  BY DEF Init
<1>2. PICK img \in FirstImages :
        slot = [s \in Index |-> IF s = 0 THEN [kind |-> "raw", img |-> img, whole |-> TRUE]
                                         ELSE Blank]
  BY DEF Init
<1>3. valid \subseteq {0, 1} /\ img \in Images
  BY FirstAssumption
<1>4. TypeOK
  <2>1. tbl \in [Index -> Table]
    BY <1>1 DEF Table, Index
  <2>2. slot \in [Index -> Contents]
    BY <1>2, <1>3, BlankFacts DEF Contents, Index
  <2>3. mfg \in [req : BOOLEAN, boots : BOOLEAN]
    BY MfgAssumption DEF Init
  <2>4. ram \in Table
    BY DEF Init, NoTable, Table, Index
  <2> QED BY <2>1, <2>2, <2>3, <2>4, BlankFacts DEF Init, TypeOK, Index
<1>5. TableInv
  BY DEF Init, TableInv
<1>6. RegionInv
  BY DEF Init, RegionInv
<1> QED BY <1>4, <1>5, <1>6 DEF IInv

\* boot2 chooses a table and a firmware.
LEMMA SelectInv ==
  ASSUME IInv, SelectNormal \/ SelectTemp
  PROVE  IInv'
<1> USE DEF SelectNormal, SelectTemp, SelectTable, flash, app
<1>1. ActiveOf(tbl) \in Index /\ tbl[ActiveOf(tbl)] \in Table
  BY ActiveFacts DEF IInv, TypeOK, TableInv, SomeTable
<1>2. TypeOK'
  BY <1>1 DEF IInv, TypeOK
<1>3. TableInv'
  BY DEF IInv, TableInv, SomeTable
<1>4. RegionInv'
  BY DEF IInv, RegionInv, Chosen
<1> QED BY <1>2, <1>3, <1>4 DEF IInv

\* The steps that change nothing but where boot2 or the application is.
LEMMA QuietInv ==
  ASSUME IInv, \/ SelectNone \/ CheckRaw \/ BootOk \/ BootTempFails \/ BootFails
               \/ OtaStop \/ RequestMfg
  PROVE  IInv'
<1> USE DEF SelectNone, CheckRaw, BootOk, BootTempFails, BootFails, OtaStop, RequestMfg, flash, boot, app
<1>1. ram \in Table /\ ram.act \in Index
  BY DEF IInv, TypeOK, Table
<1>2. TypeOK'
  <2>1. /\ UNCHANGED <<tbl, slot, mfg, active, ram, user, temp, rollBacked, file, resets>>
        /\ hbn' \in {hbn, TRUE} /\ from' \in {from, ram.act}
        /\ run' \in {run, "mfg", "fw"} /\ ota' \in {ota, "idle"}
        /\ pc' \in {pc, "halt", "boot", "app", "select"}
    OBVIOUS
  <2>2. hbn' \in BOOLEAN /\ from' \in Index
    BY <1>1, <2>1 DEF IInv, TypeOK
  <2>3. run' \in {"fw", "mfg", "none"} /\ ota' \in {"idle", "open", "stream"}
    BY <2>1 DEF IInv, TypeOK
  <2>4. pc' \in {"select", "check", "inflate", "erase", "write", "boot", "app", "halt"}
    BY <2>1 DEF IInv, TypeOK
  <2> HIDE DEF SelectNone, CheckRaw, BootOk, BootTempFails, BootFails, OtaStop, RequestMfg
  <2> QED BY <2>1, <2>2, <2>3, <2>4 DEF IInv, TypeOK
<1>3. TableInv'
  BY DEF IInv, TableInv, SomeTable
<1>4. RegionInv'
  BY DEF IInv, RegionInv, TableInv, OneStartable, Chosen
<1> QED BY <1>2, <1>3, <1>4 DEF IInv

\* The table in memory is flipped, the regions stay as they are.
LEMMA UpdateInv ==
  ASSUME IInv, CheckBroken \/ BootRollback
  PROVE  IInv'
<1> USE DEF CheckBroken, BootRollback, Update, flash, app
<1>1. active = ActiveOf(tbl) /\ ram = tbl[active] /\ tbl[active].ok /\ ram \in Table
  BY ActiveFacts DEF IInv, TypeOK, TableInv, SomeTable
<1>2. /\ ram' \in Table /\ ram'.ok
      /\ ram'.age = tbl[active].age + 1 /\ ram'.act = 1 - tbl[active].act
  BY <1>1, FlipFacts
<1>3. TypeOK'
  BY <1>2 DEF IInv, TypeOK
<1>4. TableInv'
  BY <1>1, <1>2 DEF IInv, TableInv, SomeTable
<1>5. RegionInv'
  BY DEF IInv, RegionInv, Chosen
<1> QED BY <1>3, <1>4, <1>5 DEF IInv

\* Decompression writes the region the tables do not choose.
LEMMA InflateInv ==
  ASSUME IInv, Inflate \/ InflateSome \/ InflateDone
  PROVE  IInv'
<1> USE DEF Inflate, InflateSome, InflateDone, Update, app
<1>1. /\ active = ActiveOf(tbl) /\ ram = tbl[active] /\ tbl[active].ok /\ ram \in Table
      /\ ram.act = Chosen /\ Chosen \in Index
  BY ActiveFacts DEF IInv, TypeOK, TableInv, SomeTable, Chosen, Table
<1>2. slot[Chosen].kind = "xz" /\ slot[Chosen].whole
  BY <1>1 DEF IInv, RegionInv
<1>3. Inflated \in Contents /\ Inflated.kind = "raw"
  BY <1>1 DEF IInv, TypeOK, Inflated, Contents
<1>4. PICK c \in Contents : slot' = [slot EXCEPT ![1 - Chosen] = c]
  BY <1>1, <1>3, BlankFacts, PartFacts
<1>5. /\ Chosen' = Chosen /\ 1 - Chosen \in Index /\ 1 - Chosen # Chosen
      /\ slot'[Chosen] = slot[Chosen] /\ slot'[1 - Chosen] = c
  BY <1>1, <1>4 DEF Chosen, IInv, TypeOK, Index
<1>6. /\ ram' \in Table
      /\ pc' = "erase" => /\ ram'.ok /\ ram'.age = tbl[active].age + 1
                          /\ ram'.act = 1 - tbl[active].act
  BY <1>1, FlipFacts DEF boot
<1>7. TypeOK'
  BY <1>4, <1>6 DEF IInv, TypeOK, boot
<1>8. TableInv'
  BY <1>1, <1>6 DEF IInv, TableInv, SomeTable, boot
<1>9. RegionInv'
  <2>1. run = "none" /\ run' = "none" /\ ota' = "idle" /\ file' = file
    BY DEF IInv, RegionInv
  <2> QED BY <2>1, <1>2, <1>5 DEF IInv, RegionInv
<1> QED BY <1>7, <1>8, <1>9 DEF IInv

\* An update of a table, erased first and then written.
LEMMA TableEraseInv ==
  ASSUME IInv, TableErase
  PROVE  IInv'
<1> USE DEF TableErase, boot, app, Target
<1>1. active \in Index /\ tbl[active].ok /\ active = ActiveOf(tbl)
  BY DEF IInv, TypeOK, TableInv
<1>2. /\ tbl' \in [Index -> Table]
      /\ tbl'[active] = tbl[active] /\ tbl'[1 - active].ok = FALSE
  <2> DEFINE e == [tbl[1 - active] EXCEPT !.ok = FALSE]
  <2>1. 1 - active \in Index /\ 1 - active # active /\ tbl \in [Index -> Table]
    BY <1>1 DEF IInv, TypeOK, Index
  <2>2. tbl[1 - active] \in Table
    BY <2>1
  <2>3. e \in Table /\ e.ok = FALSE
    BY <2>2 DEF Table, Index
  <2>4. tbl' = [tbl EXCEPT ![1 - active] = e]
    OBVIOUS
  <2> HIDE DEF e
  <2> QED BY <1>1, <2>1, <2>3, <2>4
<1>3. ActiveOf(tbl') = active
  BY <1>1, EraseKeeps DEF IInv, TypeOK
<1>4. Chosen' = Chosen
  BY <1>1, <1>2, <1>3 DEF Chosen
<1>5. TypeOK'
  BY <1>2 DEF IInv, TypeOK
<1>6. TableInv'
  BY <1>1, <1>2, <1>3 DEF IInv, TableInv, SomeTable
<1>7. RegionInv'
  BY <1>4 DEF IInv, RegionInv
<1> QED BY <1>5, <1>6, <1>7 DEF IInv

\* The erased table is written and the next selection starts.
LEMMA TableWriteInv ==
  ASSUME IInv, TableWrite
  PROVE  IInv'
<1> USE DEF TableWrite, Target
<1>1. active \in Index /\ ram \in Table /\ ram.ok /\ 1 - active \in Index
  BY DEF IInv, TypeOK, TableInv, Index
<1>2. tbl' \in [Index -> Table] /\ tbl'[1 - active] = ram
  BY <1>1 DEF IInv, TypeOK
<1>3. TypeOK'
  BY <1>2 DEF IInv, TypeOK
<1>4. TableInv'
  BY <1>1, <1>2 DEF IInv, TableInv, SomeTable
<1>5. RegionInv'
  <2>1. ota' = "idle" /\ run' = "none" /\ slot' = slot /\ file' = file /\ pc' = "select"
    BY DEF IInv, RegionInv
  <2> QED BY <2>1 DEF IInv, RegionInv
<1> QED BY <1>3, <1>4, <1>5 DEF IInv

\* The updater writes the region it does not execute from.
LEMMA OtaInv ==
  ASSUME IInv, OtaOpen \/ OtaCommit \/ \E f \in Files : OtaReceive(f)
  PROVE  IInv'
<1> USE DEF OtaOpen, OtaCommit, OtaReceive, Update, Backup
<1>0. pc = "app" /\ run = "fw" /\ run' = "fw" /\ from' = from
  BY DEF IInv, RegionInv, app
<1>1. /\ active = ActiveOf(tbl) /\ ram = tbl[active] /\ tbl[active].ok /\ ram \in Table
      /\ ram.act = Chosen /\ Chosen \in Index /\ from = Chosen /\ Bootable(slot[Chosen])
  BY <1>0, ActiveFacts DEF IInv, TypeOK, TableInv, RegionInv, SomeTable, Chosen, Table
<1>2. /\ ota' \in {"open", "stream"} /\ mfg' = mfg /\ tbl' = tbl /\ active' = active
      /\ hbn' = hbn /\ user' = user /\ temp' = temp /\ rollBacked' = rollBacked
      /\ resets' = resets /\ pc' \in {"app", "erase"}
      /\ file' = Blank \/ file' \in Files
  BY DEF boot, app, flash, IInv, RegionInv
<1>. file' \in Contents
  BY <1>2, FilesAreContents, BlankFacts
<1>3. PICK c \in Contents : slot' = [slot EXCEPT ![1 - Chosen] = c]
  <2>1. CASE OtaOpen
    BY <1>1, <2>1, BlankFacts
  <2>2. CASE OtaCommit
    <3>1. slot' = [slot EXCEPT ![1 - Chosen] = file] /\ file' = file
      BY <1>1, <2>2 DEF app
    <3> QED BY <3>1
  <2>3. CASE \E f \in Files : OtaReceive(f)
    BY <1>1, <2>3, FilesAreContents, PartFacts
  <2> QED BY <2>1, <2>2, <2>3
<1>4. /\ Chosen' = Chosen /\ 1 - Chosen \in Index /\ 1 - Chosen # Chosen
      /\ slot'[Chosen] = slot[Chosen] /\ slot'[1 - Chosen] = c
  BY <1>1, <1>2, <1>3 DEF Chosen, IInv, TypeOK, Index
<1>5. /\ ram' \in Table
      /\ pc' = "erase" => /\ ram'.ok /\ ram'.age = tbl[active].age + 1
                          /\ ram'.act = 1 - tbl[active].act
  BY <1>1, FlipFacts DEF boot
<1>6. TypeOK'
  <2>1. slot' \in [Index -> Contents]
    BY <1>3 DEF IInv, TypeOK
  <2> QED BY <1>0, <1>2, <1>5, <2>1 DEF IInv, TypeOK
<1>7. TableInv'
  BY <1>0, <1>1, <1>2, <1>5 DEF IInv, TableInv, SomeTable, boot
<1>8. RegionInv'
  BY <1>0, <1>1, <1>2, <1>4 DEF IInv, RegionInv, Bootable, app
<1> QED BY <1>6, <1>7, <1>8 DEF IInv

\* A reset loses everything but flash and perhaps HBN_RSV0.
LEMMA ResetInv ==
  ASSUME IInv, Reset
  PROVE  IInv'
<1> USE DEF Reset, flash
<1>1. ram' \in Table
  BY DEF NoTable, Table, Index
<1>2. hbn' \in BOOLEAN /\ user' \in BOOLEAN
  BY DEF IInv, TypeOK
<1>3. resets' \in Nat
  BY DEF IInv, TypeOK
<1>4. TypeOK'
  BY <1>1, <1>2, <1>3, Zenon DEF IInv, TypeOK, Index
<1>5. TableInv'
  BY DEF IInv, TableInv, SomeTable
<1>6. RegionInv'
  BY DEF IInv, RegionInv
<1> QED BY <1>4, <1>5, <1>6 DEF IInv

\* Every step of boot2, of the updater and every reset keeps the invariant.
LEMMA InvNext == IInv /\ [Next]_vars => IInv'
<1> SUFFICES ASSUME IInv, [Next]_vars PROVE IInv'
  OBVIOUS
<1>1. CASE Boot2Step
  BY <1>1, SelectInv, QuietInv, UpdateInv, InflateInv, TableEraseInv, TableWriteInv
     DEF Boot2Step
<1>2. CASE AppStep
  BY <1>2, QuietInv, OtaInv DEF AppStep
<1>3. CASE Reset
  BY <1>3, ResetInv
<1>4. CASE UNCHANGED vars
  BY <1>4 DEF vars, flash, boot, app, IInv, TypeOK, TableInv, RegionInv, SomeTable, Chosen
<1> QED BY <1>1, <1>2, <1>3, <1>4 DEF Next

\* The inductive invariant.
THEOREM Invariance == Spec => []IInv
BY InvInit, InvNext, PTL DEF Spec

\* Type correctness of flash, boot2 and the updater.
THEOREM TypeCorrect == Spec => []TypeOK
<1>1. IInv => TypeOK
  BY DEF IInv
<1> QED BY <1>1, Invariance, PTL

\* What a step may write is the region the tables do not choose, while the
\* chosen one is whole.
LEMMA WritesTheOther ==
  ASSUME IInv, [Next]_vars, slot' # slot
  PROVE  /\ Chosen \in Index /\ tbl' = tbl /\ Chosen' = Chosen
         /\ (slot[Chosen].kind = "xz" /\ slot[Chosen].whole) \/ Bootable(slot[Chosen])
         /\ pc' \in {"inflate", "erase", "app"}
         /\ \E c : /\ slot' = [slot EXCEPT ![1 - Chosen] = c]
                   /\ c.kind = "xz" /\ c.whole => c \in Files
<1> USE DEF flash, boot, app
<1>1. \/ Inflate \/ InflateSome \/ InflateDone
      \/ OtaOpen \/ OtaCommit \/ \E f \in Files : OtaReceive(f)
  BY DEF Next, vars, Boot2Step, AppStep, SelectNormal, SelectTemp, SelectTable, SelectNone,
    CheckRaw, CheckBroken, Update, TableErase, TableWrite, BootOk, BootTempFails,
    BootRollback, BootFails, OtaStop, RequestMfg, Reset
<1>2. pc \in {"inflate", "check", "app"}
  BY <1>1 DEF Inflate, InflateSome, InflateDone, OtaOpen, OtaCommit, OtaReceive
<1>3. ram.act = Chosen /\ Chosen \in Index
  BY <1>2, ActiveFacts DEF IInv, TypeOK, TableInv, SomeTable, Chosen, Table
<1>4. tbl' = tbl /\ Chosen' = Chosen /\ pc' \in {"inflate", "erase", "app"}
  BY <1>1 DEF Inflate, InflateSome, InflateDone, OtaOpen, OtaCommit, OtaReceive, Update, Chosen
<1>5. CASE Inflate \/ InflateSome \/ InflateDone
  <2>1. slot[Chosen].kind = "xz" /\ slot[Chosen].whole
    BY <1>3, <1>5 DEF Inflate, InflateSome, InflateDone, IInv, RegionInv
  <2>2. Inflated \in Contents /\ Inflated.kind = "raw"
    BY <1>3 DEF IInv, TypeOK, Inflated, Contents
  <2>3. \E c : /\ slot' = [slot EXCEPT ![1 - Chosen] = c]
               /\ ~(c.kind = "xz" /\ c.whole)
    BY <1>3, <1>5, <2>2, PartFacts, BlankFacts DEF Inflate, InflateSome, InflateDone
  <2> QED BY <1>3, <1>4, <2>1, <2>3
<1>6. CASE OtaOpen \/ OtaCommit \/ \E f \in Files : OtaReceive(f)
  <2>1. run = "fw"
    BY <1>6 DEF OtaOpen, OtaCommit, OtaReceive, IInv, RegionInv
  <2>2. Bootable(slot[Chosen])
    BY <2>1 DEF IInv, RegionInv
  <2>3. \E c : /\ slot' = [slot EXCEPT ![1 - Chosen] = c]
               /\ c.kind = "xz" /\ c.whole => c \in Files
    <3>1. CASE OtaOpen
      BY <1>3, <3>1, BlankFacts DEF OtaOpen, Backup
    <3>2. CASE OtaCommit
      BY <1>3, <3>2 DEF OtaCommit, Backup, IInv, RegionInv
    <3>3. CASE \E f \in Files : OtaReceive(f)
      BY <1>3, <3>3, FilesAreContents, PartFacts DEF OtaReceive, Backup
    <3> QED BY <1>6, <3>1, <3>2, <3>3
  <2> QED BY <1>3, <1>4, <2>2, <2>3
<1> QED BY <1>1, <1>5, <1>6

\* The executing region and the one boot2 decompresses from are never written.
THEOREM SourceNeverWritten == Spec => SourceKept
<1> DEFINE Kept == /\ run = "fw" => slot'[from] = slot[from]
                   /\ pc = "inflate" => slot'[Chosen] = slot[Chosen]
<1>1. IInv /\ [Next]_vars => [Kept]_vars
  <2> SUFFICES ASSUME IInv, [Next]_vars, slot' # slot PROVE Kept
    OBVIOUS
  <2>1. PICK c : slot' = [slot EXCEPT ![1 - Chosen] = c]
    BY WritesTheOther
  <2>2. Chosen \in Index /\ 1 - Chosen # Chosen
    BY WritesTheOther DEF Index
  <2>3. run = "fw" => from = Chosen
    BY DEF IInv, RegionInv
  <2> QED BY <2>1, <2>2, <2>3 DEF IInv, TypeOK
<1> QED BY <1>1, Invariance, PTL DEF Spec, SourceKept

-------------------------------------------------------------------------------
(***************************************************************************)
(* Something to start from                                                 *)
(***************************************************************************)

\* A table that is valid stays, or another one is.
LEMMA SomeTableKept == IInv /\ SomeTable /\ [Next]_vars => SomeTable'
<1> SUFFICES ASSUME IInv, SomeTable, [Next]_vars, tbl' # tbl PROVE SomeTable'
  BY DEF SomeTable
<1>1. TableErase \/ TableWrite
  BY DEF Next, vars, flash, boot, app, Boot2Step, AppStep, SelectNormal, SelectTemp,
    SelectTable, SelectNone, CheckRaw, CheckBroken, Update, Inflate, InflateSome,
    InflateDone, BootOk, BootTempFails, BootRollback, BootFails, OtaOpen, OtaReceive,
    OtaStop, OtaCommit, RequestMfg, Reset
<1>2. active \in Index /\ 1 - active \in Index /\ 1 - active # active
      /\ tbl \in [Index -> Table] /\ tbl[active].ok /\ ram.ok
  BY <1>1 DEF TableErase, TableWrite, IInv, TypeOK, TableInv, Index
<1> QED BY <1>1, <1>2 DEF TableErase, TableWrite, Target, SomeTable

\* Delivered with a table, the device always has one (partition.c:337).
THEOREM AlwaysSomeTable == {} \notin FirstTables => (Spec => []SomeTable)
<1> SUFFICES ASSUME {} \notin FirstTables PROVE Spec => []SomeTable
  OBVIOUS
<1>1. Init => SomeTable
  <2> SUFFICES ASSUME Init PROVE SomeTable
    OBVIOUS
  <2>1. PICK valid \in FirstTables :
          tbl = [i \in Index |-> [ok |-> i \in valid, age |-> 0, act |-> 0]]
    BY DEF Init
  <2>2. PICK i : i \in valid
    BY <2>1
  <2>3. i \in Index
    BY <2>1, <2>2, FirstAssumption DEF Index
  <2> QED BY <2>1, <2>2, <2>3 DEF SomeTable
<1> QED BY <1>1, Invariance, SomeTableKept, PTL DEF Spec

\* What sound releases add to the invariant.
SafeInv ==
  /\ AlwaysStartable
  /\ \A s \in Index : slot[s].kind = "xz" /\ slot[s].whole => slot[s].img \notin Flawed

\* A device delivered as SoundReleases says has an image to start.
LEMMA SafeInit == SoundReleases /\ Init => SafeInv
<1> SUFFICES ASSUME SoundReleases, Init PROVE SafeInv
  OBVIOUS
<1>1. PICK valid \in FirstTables :
        tbl = [i \in Index |-> [ok |-> i \in valid, age |-> 0, act |-> 0]]
  BY DEF Init
<1>2. PICK img \in FirstImages :
        slot = [s \in Index |-> IF s = 0 THEN [kind |-> "raw", img |-> img, whole |-> TRUE]
                                         ELSE Blank]
  BY DEF Init
<1>3. valid \subseteq {0, 1} /\ valid # {} /\ img \notin Flawed
  BY FirstAssumption DEF SoundReleases
<1>4. SomeTable
  BY <1>1, <1>3 DEF SomeTable, Index
<1>5. slot[0] = [kind |-> "raw", img |-> img, whole |-> TRUE] /\ slot[1] = Blank
  BY <1>2 DEF Index
<1> QED BY <1>3, <1>4, <1>5, BlankFacts
     DEF SafeInv, AlwaysStartable, OneStartable, Startable, Index

\* No step takes the last table or the last image.
LEMMA SafeNext == SoundReleases /\ IInv /\ SafeInv /\ [Next]_vars => SafeInv'
<1> SUFFICES ASSUME SoundReleases, IInv, SafeInv, [Next]_vars PROVE SafeInv'
  OBVIOUS
<1>1. SomeTable'
  BY SomeTableKept DEF SafeInv, AlwaysStartable
<1>2. CASE slot' = slot
  BY <1>1, <1>2 DEF SafeInv, AlwaysStartable, OneStartable
<1>3. CASE slot' # slot
  <2>1. PICK c : /\ slot' = [slot EXCEPT ![1 - Chosen] = c]
                 /\ c.kind = "xz" /\ c.whole => c \in Files
    BY <1>3, WritesTheOther
  <2>2. Chosen \in Index /\ slot \in [Index -> Contents] /\ 1 - Chosen # Chosen
        /\ 1 - Chosen \in Index /\ \A s \in Index : s = Chosen \/ s = 1 - Chosen
    BY <1>3, WritesTheOther DEF IInv, TypeOK, Index
  <2>3. slot'[Chosen] = slot[Chosen] /\ slot'[1 - Chosen] = c
    BY <2>1, <2>2
  <2>4. Startable(slot[Chosen])
    BY <1>3, <2>2, WritesTheOther DEF SafeInv, Startable, Bootable
  <2>5. OneStartable'
    BY <2>2, <2>3, <2>4 DEF OneStartable
  <2>6. \A s \in Index : slot'[s].kind = "xz" /\ slot'[s].whole => slot'[s].img \notin Flawed
    <3> TAKE s \in Index
    <3>1. CASE s = Chosen
      BY <3>1, <2>3 DEF SafeInv
    <3>2. CASE s = 1 - Chosen
      BY <3>2, <2>1, <2>3 DEF SoundReleases
    <3> QED BY <2>2, <3>1, <3>2
  <2> QED BY <1>1, <2>5, <2>6 DEF SafeInv, AlwaysStartable
<1> QED BY <1>2, <1>3

\* Sound releases keep the device safe.
LEMMA Safety == SoundReleases => (Spec => []SafeInv)
<1> SUFFICES ASSUME SoundReleases PROVE Spec => []SafeInv
  OBVIOUS
<1>1. Init => SafeInv
  BY SafeInit
<1>2. IInv /\ SafeInv /\ [Next]_vars => SafeInv'
  BY SafeNext
<1> QED BY <1>1, <1>2, Invariance, PTL DEF Spec

\* Whatever is installed and whenever the device is reset, a table is valid
\* and a region holds an image boot2 can start.
THEOREM NeverUnstartable == SoundReleases => (Spec => []AlwaysStartable)
<1>1. SafeInv => AlwaysStartable
  BY DEF SafeInv
<1> QED BY <1>1, Safety, PTL
-------------------------------------------------------------------------------
(***************************************************************************)
(* Giving up                                                               *)
(***************************************************************************)

\* The region that is chosen once an update in progress is in flash.
Pointed == IF pc \in {"erase", "write"} THEN ram.act ELSE Chosen

\* A rollback is from an image that does not start, so that boot2 points at
\* one that starts if there is any; a compressed image is never tried.
RolledInv ==
  run = "none" /\ rollBacked => (Startable(slot[1 - Pointed]) => Startable(slot[Pointed]))
TriedInv == pc = "boot" /\ ~temp => slot[Chosen].kind # "xz"

LostInv == RolledInv /\ TriedInv /\ HaltsOnlyLost

\* The regions, and the one the table in memory names.
LEMMA RegionFacts ==
  ASSUME IInv
  PROVE  /\ slot \in [Index -> Contents] /\ tbl \in [Index -> Table] /\ ram \in Table
         /\ \A i \in Index : 1 - i \in Index /\ 1 - i # i /\ 1 - (1 - i) = i
         /\ \A i, j \in Index : i = j \/ i = 1 - j
         /\ pc \in {"check", "inflate", "boot", "app"} => Chosen \in Index /\ ram.act = Chosen
<1>1. slot \in [Index -> Contents] /\ tbl \in [Index -> Table] /\ ram \in Table
  BY DEF IInv, TypeOK
<1>2. \A i \in Index : 1 - i \in Index /\ 1 - i # i /\ 1 - (1 - i) = i
  BY DEF Index
<1>3. \A i, j \in Index : i = j \/ i = 1 - j
  BY DEF Index
<1>4. pc \in {"check", "inflate", "boot", "app"} => Chosen \in Index /\ ram.act = Chosen
  BY <1>1 DEF IInv, TableInv, Chosen, Table
<1> QED BY <1>1, <1>2, <1>3, <1>4

\* The steps that leave the regions, the tables and rollBacked alone.
LEMMA LostQuiet ==
  ASSUME IInv, LostInv,
         \/ SelectNormal \/ SelectTemp \/ SelectNone \/ CheckRaw \/ TableErase
         \/ BootOk \/ BootTempFails \/ BootFails
  PROVE  LostInv'
<1> USE DEF SelectNormal, SelectTemp, SelectTable, SelectNone, CheckRaw, BootOk,
      BootTempFails, BootFails, flash, boot, app
<1>1. CASE TableErase
  <2>1. pc' = "write" /\ Pointed' = Pointed /\ slot' = slot /\ run' = run
        /\ rollBacked' = rollBacked
    BY <1>1 DEF TableErase, Pointed
  <2> QED BY <2>1 DEF LostInv, RolledInv, TriedInv, HaltsOnlyLost
<1>2. CASE BootFails
  <2>1. /\ Chosen \in Index /\ ~Startable(slot[Chosen]) /\ run = "none"
        /\ Pointed = Chosen /\ Pointed' = Pointed
    BY <1>2, RegionFacts DEF Pointed, Chosen, LostInv, TriedInv, Startable, Bootable, IInv,
      RegionInv
  <2>2. ~Startable(slot[1 - Chosen])
    BY <1>2, <2>1 DEF LostInv, RolledInv
  <2>3. ~OneStartable
    BY <2>1, <2>2, RegionFacts DEF OneStartable
  <2>4. HaltsOnlyLost'
    BY <1>2, <2>3 DEF HaltsOnlyLost, OneStartable
  <2> QED BY <1>2, <2>1, <2>4 DEF LostInv, RolledInv, TriedInv
<1>3. CASE SelectNormal \/ SelectTemp \/ SelectNone \/ CheckRaw \/ BootOk \/ BootTempFails
  <2>1. /\ Pointed' = Pointed /\ slot' = slot /\ rollBacked' = rollBacked
        /\ run' = "none" => run = "none"
    BY <1>3 DEF Pointed, Chosen
  <2>2. TriedInv'
    BY <1>3, RegionFacts DEF TriedInv, Chosen
  <2>3. HaltsOnlyLost'
    BY <1>3 DEF HaltsOnlyLost, SomeTable
  <2> QED BY <2>1, <2>2, <2>3 DEF LostInv, RolledInv
<1> QED BY <1>1, <1>2, <1>3

\* The table in memory is flipped: away from an image that does not start, or
\* to the decompressed copy of one.
LEMMA LostUpdate ==
  ASSUME IInv, LostInv, CheckBroken \/ BootRollback \/ InflateDone
  PROVE  LostInv'
<1> USE DEF CheckBroken, BootRollback, InflateDone, Update, flash, boot, app
<1>1. Chosen \in Index /\ ram.act = Chosen /\ run' = run
  BY RegionFacts
<1>2. Pointed' = 1 - Chosen /\ 1 - Pointed' = Chosen /\ pc' = "erase"
  BY <1>1, RegionFacts, FlipFacts DEF Pointed
<1>3. Startable(slot'[Chosen]) => Startable(slot'[1 - Chosen])
  <2>1. CASE CheckBroken \/ BootRollback
    BY <1>1, <2>1 DEF Startable, LostInv, TriedInv, Bootable, IInv, RegionInv
  <2>2. CASE InflateDone
    BY <1>1, <2>2, RegionFacts DEF Startable, Inflated
  <2> QED BY <2>1, <2>2
<1> QED BY <1>2, <1>3 DEF LostInv, RolledInv, TriedInv, HaltsOnlyLost

\* Decompression starts by erasing the other region.
LEMMA LostInflate ==
  ASSUME IInv, LostInv, Inflate \/ InflateSome
  PROVE  LostInv'
<1> USE DEF Inflate, InflateSome, boot, app
<1>1. Chosen \in Index /\ ram.act = Chosen /\ pc' = "inflate" /\ tbl' = tbl
  BY RegionFacts
<1>2. Pointed' = Chosen /\ Inflated \in Contents
  BY <1>1, RegionFacts DEF Pointed, Chosen, Inflated, Contents
<1>3. \E c : slot' = [slot EXCEPT ![1 - Chosen] = c] /\ ~c.whole
  BY <1>1, <1>2, BlankFacts, PartFacts
<1>4. ~Startable(slot'[1 - Chosen])
  BY <1>1, <1>3, RegionFacts DEF Startable
<1> QED BY <1>1, <1>2, <1>4 DEF LostInv, RolledInv, TriedInv, HaltsOnlyLost

\* The table in memory becomes the chosen one.
LEMMA WriteChooses ==
  ASSUME IInv, TableWrite
  PROVE  Chosen' = ram.act /\ slot' = slot
<1>1. active \in Index /\ tbl[active].ok /\ ram.ok /\ ram.age = tbl[active].age + 1
      /\ ram \in Table /\ tbl \in [Index -> Table] /\ 1 - active \in Index
  BY DEF TableWrite, IInv, TypeOK, TableInv, Index
<1>2. tbl' = [tbl EXCEPT ![1 - active] = ram] /\ slot' = slot
  BY DEF TableWrite, Target
<1>3. ActiveOf(tbl') = 1 - active
  BY <1>1, <1>2, WriteTakesOver
<1> QED BY <1>1, <1>2, <1>3 DEF Chosen

\* No step makes boot2 give up an image that starts.
LEMMA LostNext == IInv /\ LostInv /\ [Next]_vars => LostInv'
<1> SUFFICES ASSUME IInv, LostInv, [Next]_vars PROVE LostInv'
  OBVIOUS
<1>1. CASE \/ SelectNormal \/ SelectTemp \/ SelectNone \/ CheckRaw \/ TableErase
           \/ BootOk \/ BootTempFails \/ BootFails
  BY <1>1, LostQuiet
<1>2. CASE CheckBroken \/ BootRollback \/ InflateDone
  BY <1>2, LostUpdate
<1>3. CASE Inflate \/ InflateSome
  BY <1>3, LostInflate
<1>4. CASE TableWrite
  <2>1. Pointed' = Pointed /\ slot' = slot /\ pc' = "select"
    BY <1>4, WriteChooses DEF Pointed, TableWrite
  <2>2. run = "none" \/ rollBacked' = FALSE
    BY <1>4 DEF TableWrite
  <2>3. run = "none" => rollBacked' = rollBacked
    BY <1>4 DEF TableWrite
  <2> QED BY <2>1, <2>2, <2>3 DEF LostInv, RolledInv, TriedInv, HaltsOnlyLost
<1>5. CASE AppStep
  <2>1. run' # "none" /\ pc' \in {"app", "erase"}
    BY <1>5 DEF AppStep, OtaOpen, OtaStop, OtaCommit, OtaReceive, RequestMfg, Update, app,
      IInv, RegionInv
  <2> QED BY <2>1 DEF LostInv, RolledInv, TriedInv, HaltsOnlyLost
<1>6. CASE Reset
  BY <1>6 DEF Reset, LostInv, RolledInv, TriedInv, HaltsOnlyLost
<1>7. CASE UNCHANGED vars
  BY <1>7 DEF vars, flash, boot, app, LostInv, RolledInv, TriedInv, HaltsOnlyLost,
    Pointed, Chosen, SomeTable, OneStartable
<1> QED BY <1>1, <1>2, <1>3, <1>4, <1>5, <1>6, <1>7 DEF Next, Boot2Step

\* Whatever was delivered and offered, boot2 gives up only when no table is
\* valid or no region holds an image to start.
THEOREM GivesUpOnlyLost == Spec => []HaltsOnlyLost
<1>1. Init => LostInv
  BY DEF Init, LostInv, RolledInv, TriedInv, HaltsOnlyLost
<1>2. LostInv => HaltsOnlyLost
  BY DEF LostInv
<1> QED BY <1>1, <1>2, Invariance, LostNext, PTL DEF Spec

\* With sound releases boot2 never gives up, whenever the device is reset.
THEOREM NeverGivesUp == SoundReleases => (Spec => [](pc # "halt"))
<1> SUFFICES ASSUME SoundReleases PROVE Spec => [](pc # "halt")
  OBVIOUS
<1>1. AlwaysStartable /\ HaltsOnlyLost => pc # "halt"
  BY DEF AlwaysStartable, HaltsOnlyLost
<1> QED BY <1>1, NeverUnstartable, GivesUpOnlyLost, PTL
-------------------------------------------------------------------------------
(***************************************************************************)
(* Refinement                                                              *)
(***************************************************************************)

\* What an update in progress chooses: the release that was received, the
\* decompressed copy of the one chosen now, or the way back from an image
\* that does not start.
PendingInv ==
  pc \in {"erase", "write"} =>
    IF run = "fw" THEN ota = "stream" /\ slot[1 - Chosen] = file
    ELSE ~Startable(slot[Chosen]) \/ Release(slot[1 - Chosen]) = Release(slot[Chosen])

\* Erasing the other table does not change what is chosen.
LEMMA EraseChooses ==
  ASSUME IInv, TableErase
  PROVE  Chosen' = Chosen
<1>1. active \in Index /\ tbl[active].ok /\ active = ActiveOf(tbl) /\ 1 - active # active
      /\ tbl \in [Index -> Table]
  BY DEF TableErase, IInv, TypeOK, TableInv, Index
<1>2. tbl' = [tbl EXCEPT ![1 - active].ok = FALSE]
  BY DEF TableErase, Target
<1>3. ActiveOf(tbl') = active /\ tbl'[active] = tbl[active]
  BY <1>1, <1>2, EraseKeeps
<1> QED BY <1>1, <1>3 DEF Chosen

\* An update is begun only with a release that was received or one to go
\* back to.
LEMMA PendingNext == IInv /\ LostInv /\ PendingInv /\ [Next]_vars => PendingInv'
<1> SUFFICES ASSUME IInv, LostInv, PendingInv, [Next]_vars, pc' \in {"erase", "write"}
             PROVE  PendingInv'
  BY DEF PendingInv
<1> USE DEF flash, boot, app
<1>1. CASE CheckBroken \/ BootRollback
  <2>1. Chosen \in Index /\ ram.act = Chosen /\ Chosen' = Chosen /\ slot' = slot
    BY <1>1, RegionFacts DEF CheckBroken, BootRollback, Update, Chosen
  <2>2. ~Startable(slot[Chosen]) /\ run' = "none"
    BY <1>1, <2>1 DEF CheckBroken, BootRollback, LostInv, TriedInv, Startable, Bootable,
      IInv, RegionInv
  <2> QED BY <2>1, <2>2 DEF PendingInv
<1>2. CASE InflateDone
  <2>1. /\ Chosen \in Index /\ ram.act = Chosen /\ Chosen' = Chosen
        /\ slot' = [slot EXCEPT ![1 - Chosen] = Inflated] /\ run' = "none"
        /\ slot[Chosen].kind = "xz" /\ slot[Chosen].whole
    BY <1>2, RegionFacts DEF InflateDone, Update, Chosen, IInv, RegionInv
  <2>2. slot'[1 - Chosen] = Inflated /\ slot'[Chosen] = slot[Chosen]
    BY <2>1, RegionFacts
  <2>3. Inflated = [kind |-> "raw", img |-> slot[Chosen].img, whole |-> TRUE]
    BY <2>1 DEF Inflated
  <2>4. Release(Inflated) = Release(slot[Chosen])
    BY <2>1, <2>3 DEF Release, Startable
  <2> QED BY <2>1, <2>2, <2>4 DEF PendingInv
<1>3. CASE OtaCommit
  <2>1. /\ Chosen \in Index /\ ram.act = Chosen /\ Chosen' = Chosen
        /\ slot' = [slot EXCEPT ![1 - Chosen] = file] /\ file' = file
        /\ run' = "fw" /\ ota' = "stream"
    BY <1>3, RegionFacts DEF OtaCommit, Backup, Update, Chosen, IInv, RegionInv
  <2> QED BY <2>1, RegionFacts DEF PendingInv
<1>4. CASE TableErase
  BY <1>4, EraseChooses DEF TableErase, PendingInv
<1>5. CASE UNCHANGED vars
  BY <1>5 DEF vars, PendingInv, Chosen
<1>6. \/ CheckBroken \/ BootRollback \/ InflateDone \/ OtaCommit \/ TableErase
      \/ UNCHANGED vars
  BY DEF Next, Boot2Step, AppStep, SelectNormal, SelectTemp, SelectTable, SelectNone, CheckRaw,
    Inflate, InflateSome, TableWrite, BootOk, BootTempFails, BootFails, OtaOpen, OtaReceive,
    OtaStop, RequestMfg, Reset
<1> QED BY <1>1, <1>2, <1>3, <1>4, <1>5, <1>6

\* The region that starts, or is gone back to.
Good == IF Startable(slot[Chosen]) THEN Chosen ELSE 1 - Chosen

\* The delivered release is the first one.
LEMMA RefineInit == SoundReleases /\ Init => Atomic!Init
<1> SUFFICES ASSUME SoundReleases, Init PROVE Atomic!Init
  OBVIOUS
<1>1. PICK valid \in FirstTables :
        tbl = [i \in Index |-> [ok |-> i \in valid, age |-> 0, act |-> 0]]
  BY DEF Init
<1>2. PICK img \in FirstImages :
        slot = [s \in Index |-> IF s = 0 THEN [kind |-> "raw", img |-> img, whole |-> TRUE]
                                         ELSE Blank]
  BY DEF Init
<1>3. Chosen = 0
  BY <1>1 DEF Chosen, ActiveOf, Newest, Index
<1>4. slot[0] = [kind |-> "raw", img |-> img, whole |-> TRUE] /\ img \notin Flawed
  BY <1>2 DEF Index, SoundReleases
<1>5. Startable(slot[0])
  BY <1>4 DEF Startable
<1> QED BY <1>3, <1>4, <1>5 DEF Atomic!Init

\* A table that is written installs a release, goes back to the safe one or
\* changes nothing that the device starts.
LEMMA RefineWrite ==
  ASSUME IInv, SafeInv, PendingInv, TableWrite
  PROVE  [Atomic!Next]_<<Release(slot[Chosen]), Release(slot[Good])>>
<1>1. pc = "write" /\ slot' = slot /\ Chosen' = ram.act
  BY WriteChooses DEF TableWrite
<1>2. active \in Index /\ tbl[active] \in Table /\ active = ActiveOf(tbl)
      /\ ram.act = 1 - tbl[active].act
  BY <1>1 DEF IInv, TypeOK, TableInv
<1>3. Chosen \in Index /\ Chosen' = 1 - Chosen /\ 1 - Chosen \in Index
      /\ 1 - (1 - Chosen) = Chosen /\ 1 - Chosen # Chosen
  BY <1>1, <1>2 DEF Chosen, Table, Index
<1>4. Good' = IF Startable(slot[1 - Chosen]) THEN 1 - Chosen ELSE Chosen
  BY <1>1, <1>3 DEF Good
<1>5. run = "fw" \/ run = "none"
  BY <1>1 DEF IInv, TypeOK, RegionInv
<1>6. CASE run = "fw"
  <2>1. slot[1 - Chosen] = file /\ file \in Files /\ Startable(slot[Chosen])
    BY <1>1, <1>6 DEF PendingInv, IInv, RegionInv, Startable, Bootable
  <2>2. Good = Chosen
    BY <2>1 DEF Good
  <2>3. Atomic!Install(Release(file))
    <3>1. Release(slot[Chosen]).good /\ (Release(file).good <=> Startable(file))
      BY <2>1 DEF Release
    <3>2. Release(slot'[Chosen']) = Release(file)
      BY <1>1, <1>3, <2>1
    <3>3. Release(slot'[Good']) = IF Release(file).good THEN Release(file)
                                                       ELSE Release(slot[Chosen])
      BY <1>1, <1>4, <2>1, <3>1
    <3> QED BY <3>1, <3>2, <3>3, <1>4 DEF Atomic!Install, Good
  <2> QED BY <2>1, <2>3 DEF Atomic!Next
<1>7. CASE run = "none" /\ ~Startable(slot[Chosen])
  <2>1. Startable(slot[1 - Chosen])
    BY <1>3, <1>7, RegionFacts DEF SafeInv, AlwaysStartable, OneStartable
  <2>2. Good = 1 - Chosen /\ Good' = 1 - Chosen /\ ~Release(slot[Chosen]).good
    BY <1>4, <1>7, <2>1 DEF Good, Release
  <2> QED BY <1>1, <1>3, <2>2 DEF Atomic!Next, Atomic!RollBack, Good
<1>8. CASE run = "none" /\ Startable(slot[Chosen])
  <2>1. Release(slot[1 - Chosen]) = Release(slot[Chosen])
    BY <1>1, <1>8 DEF PendingInv
  <2>2. Startable(slot[1 - Chosen])
    BY <1>8, <2>1 DEF Release
  <2> QED BY <1>1, <1>3, <1>4, <1>8, <2>1, <2>2 DEF Good
<1> QED BY <1>5, <1>6, <1>7, <1>8

\* Every other step leaves what the device starts alone.
LEMMA RefineNext ==
  IInv /\ SafeInv /\ PendingInv /\ [Next]_vars
    => [Atomic!Next]_<<Release(slot[Chosen]), Release(slot[Good])>>
<1> SUFFICES ASSUME IInv, SafeInv, PendingInv, [Next]_vars
             PROVE  [Atomic!Next]_<<Release(slot[Chosen]), Release(slot[Good])>>
  OBVIOUS
<1>1. CASE TableWrite
  BY <1>1, RefineWrite
<1>2. CASE TableErase
  <2>1. Chosen' = Chosen /\ slot' = slot
    BY <1>2, EraseChooses DEF TableErase
  <2> QED BY <2>1 DEF Good
<1>3. CASE slot' # slot
  <2>1. /\ Chosen \in Index /\ Chosen' = Chosen
        /\ (slot[Chosen].kind = "xz" /\ slot[Chosen].whole) \/ Bootable(slot[Chosen])
    BY <1>3, WritesTheOther
  <2>2. PICK c : slot' = [slot EXCEPT ![1 - Chosen] = c]
    BY <1>3, WritesTheOther
  <2>3. slot'[Chosen] = slot[Chosen]
    BY <2>1, <2>2, RegionFacts
  <2>4. Startable(slot[Chosen])
    BY <2>1 DEF SafeInv, Startable, Bootable
  <2> QED BY <2>1, <2>3, <2>4 DEF Good
<1>4. CASE slot' = slot /\ tbl' = tbl
  BY <1>4 DEF Good, Chosen
<1>5. slot' = slot => TableWrite \/ TableErase \/ tbl' = tbl
  BY DEF Next, vars, flash, boot, app, Boot2Step, AppStep, SelectNormal, SelectTemp,
    SelectTable, SelectNone, CheckRaw, CheckBroken, Update, Inflate, InflateSome,
    InflateDone, BootOk, BootTempFails, BootRollback, BootFails, OtaOpen, OtaReceive,
    OtaStop, OtaCommit, RequestMfg, Reset
<1> QED BY <1>1, <1>2, <1>3, <1>4, <1>5

\* The updater and boot2 implement the atomic update: what the device starts
\* changes at one write of a table, and back only from what does not start.
THEOREM Refinement == SoundReleases => (Spec => ImplementsAtomicUpdate)
<1> SUFFICES ASSUME SoundReleases PROVE Spec => ImplementsAtomicUpdate
  OBVIOUS
<1>1. Init => Atomic!Init
  BY RefineInit
<1>2. Init => LostInv /\ PendingInv
  BY DEF Init, LostInv, RolledInv, TriedInv, HaltsOnlyLost, PendingInv
<1>3. IInv /\ SafeInv /\ PendingInv /\ [Next]_vars
        => [Atomic!Next]_<<Release(slot[Chosen]),
             Release(slot[IF Startable(slot[Chosen]) THEN Chosen ELSE 1 - Chosen])>>
  BY RefineNext DEF Good
<1> QED BY <1>1, <1>2, <1>3, Invariance, Safety, LostNext, PendingNext, PTL
     DEF Spec, ImplementsAtomicUpdate, Atomic!Spec

-------------------------------------------------------------------------------
(***************************************************************************)
(* Boot2 gets to an application                                            *)
(***************************************************************************)
\* How far the region that is chosen, or about to be, is from an image that runs.
Quality ==
  LET c == slot[Pointed] IN
  IF Bootable(c) THEN 0 ELSE IF Startable(c) THEN 1 ELSE 2

\* The places boot2 passes with one region: the table is written, the request
\* for another image comes first, then the region is checked and started or
\* decompressed.
Place ==
  IF pc = "erase" THEN 8
  ELSE IF pc = "write" THEN 7
  ELSE IF pc = "select" THEN IF user \/ mfg.req THEN 6 ELSE 4
  ELSE IF pc = "boot" THEN IF temp THEN 5 ELSE 2
  ELSE IF pc = "check" THEN 3
  ELSE IF slot[1 - ram.act] # Part(Inflated) THEN 2 ELSE 1

Rank == 8 * Quality + Place

\* A request is taken once, and the one that stays is for an image that boots.
RequestInv ==
  /\ pc = "check" => ~temp
  /\ pc = "boot" /\ temp => ~user
  /\ mfg.req => mfg.boots

\* Every step keeps what is known of the request for the mfg image.
LEMMA RequestNext == RequestInv /\ [Next]_vars => RequestInv'
<1> SUFFICES ASSUME RequestInv, [Next]_vars PROVE RequestInv'
  OBVIOUS
<1> USE DEF RequestInv, flash, boot, app
<1>1. mfg' = mfg
  BY DEF Next, Boot2Step, AppStep, SelectNormal, SelectTemp, SelectTable, SelectNone, CheckRaw,
    CheckBroken, Inflate, InflateSome, InflateDone, Update, TableErase, TableWrite, BootOk,
    BootTempFails, BootRollback, BootFails, OtaOpen, OtaReceive, OtaStop, OtaCommit, RequestMfg,
    Reset, vars
<1>2. (pc' = "check" => ~temp') /\ (pc' = "boot" /\ temp' => ~user')
  <2>1. CASE SelectNormal \/ SelectTemp \/ CheckRaw
    BY <2>1 DEF SelectNormal, SelectTemp, CheckRaw
  <2>2. CASE \/ SelectNone \/ CheckBroken \/ Inflate \/ InflateSome \/ InflateDone
             \/ TableErase \/ TableWrite \/ BootOk \/ BootTempFails \/ BootRollback
             \/ BootFails \/ AppStep \/ Reset
    <3>1. pc' \in {"select", "inflate", "erase", "write", "app", "halt"}
      BY <2>2 DEF SelectNone, CheckBroken, Inflate, InflateSome, InflateDone, Update,
        TableErase, TableWrite, BootOk, BootTempFails, BootRollback, BootFails, AppStep,
        OtaOpen, OtaReceive, OtaStop, OtaCommit, RequestMfg, Reset
    <3> QED BY <3>1
  <2>3. CASE UNCHANGED vars
    BY <2>3 DEF vars
  <2> QED BY <2>1, <2>2, <2>3 DEF Next, Boot2Step
<1> QED BY <1>1, <1>2

BootInv == IInv /\ SafeInv /\ LostInv /\ RequestInv /\ pc # "halt"

\* The order of ranks.
LEMMA RankOrder ==
  ASSUME NEW q \in 0 .. 2, NEW p \in 1 .. 8, NEW r \in 0 .. 2, NEW s \in 1 .. 8,
         r < q \/ (r = q /\ s < p)
  PROVE  8 * r + s < 8 * q + p
OBVIOUS

\* Boot2 stays with the region.
LEMMA PlaceFalls ==
  ASSUME BootInv,
         SelectNormal \/ SelectTemp \/ CheckRaw \/ Inflate \/ InflateSome \/ TableErase
           \/ TableWrite \/ BootTempFails
  PROVE  Quality' = Quality /\ Place' < Place
<1> USE DEF flash, boot, app
<1>0. IInv
  BY DEF BootInv
<1>1. CASE SelectNormal \/ SelectTemp
  <2>1. slot' = slot /\ tbl' = tbl /\ Pointed' = Pointed
    BY <1>1 DEF SelectNormal, SelectTemp, SelectTable, Pointed, Chosen
  <2>2. Place' < Place
    BY <1>1 DEF SelectNormal, SelectTemp, SelectTable, Place
  <2> QED BY <2>1, <2>2 DEF Quality
<1>2. CASE CheckRaw
  <2>1. slot' = slot /\ tbl' = tbl /\ Pointed' = Pointed /\ ~temp
    BY <1>2 DEF CheckRaw, Pointed, Chosen, BootInv, RequestInv
  <2>2. Place' < Place
    BY <1>2, <2>1 DEF CheckRaw, Place
  <2> QED BY <2>1, <2>2 DEF Quality
<1>3. CASE Inflate \/ InflateSome
  <2>1. /\ Chosen \in Index /\ ram.act = Chosen /\ Pointed = Chosen /\ Pointed' = Chosen
        /\ ram' = ram /\ 1 - Chosen # Chosen /\ pc' = "inflate"
    BY <1>0, <1>3, RegionFacts DEF Inflate, InflateSome, Pointed, Chosen
  <2>2. slot'[Chosen] = slot[Chosen]
    BY <1>0, <1>3, <2>1, RegionFacts DEF Inflate, InflateSome
  <2>3. Inflated' = Inflated /\ Part(Inflated)' = Part(Inflated)
    BY <2>1, <2>2 DEF Inflated, Part
  <2>4. ASSUME Inflate PROVE Place' < Place
    <3>1. Place = 3 /\ Place' \in {1, 2}
      BY <2>1, <2>4 DEF Inflate, Place
    <3> QED BY <3>1
  <2>5. ASSUME InflateSome PROVE Place' < Place
    <3>1. slot'[1 - ram.act] = Part(Inflated)
      BY <1>0, <2>1, <2>5, RegionFacts DEF InflateSome
    <3>2. Place = 2 /\ pc' = "inflate"
      BY <2>5 DEF InflateSome, Place
    <3>3. Place' = 1
      BY <2>1, <2>3, <3>1, <3>2 DEF Place
    <3> QED BY <3>2, <3>3
  <2> QED BY <1>3, <2>1, <2>2, <2>4, <2>5 DEF Quality
<1>4. CASE TableErase
  <2>1. slot' = slot /\ ram' = ram /\ Pointed' = Pointed
    BY <1>4 DEF TableErase, Pointed
  <2>2. Place' < Place
    BY <1>4 DEF TableErase, Place
  <2> QED BY <2>1, <2>2 DEF Quality
<1>5. CASE TableWrite
  <2>1. slot' = slot /\ Pointed' = Pointed
    BY <1>0, <1>5, WriteChooses DEF TableWrite, Pointed
  <2>2. Place' < Place
    BY <1>5 DEF TableWrite, Place
  <2> QED BY <2>1, <2>2 DEF Quality
<1>6. CASE BootTempFails
  <2>1. slot' = slot /\ tbl' = tbl /\ Pointed' = Pointed
    BY <1>6 DEF BootTempFails, Pointed, Chosen
  <2>2. ~user' /\ ~mfg'.req
    BY <1>6 DEF BootTempFails, BootInv, RequestInv
  <2>3. Place' < Place
    BY <1>6, <2>2 DEF BootTempFails, Place
  <2> QED BY <2>1, <2>3 DEF Quality
<1> QED BY <1>1, <1>2, <1>3, <1>4, <1>5, <1>6

\* Boot2 turns to the other region.
LEMMA QualityFalls ==
  ASSUME BootInv, CheckBroken \/ InflateDone \/ BootRollback
  PROVE  Quality' < Quality
<1> USE DEF CheckBroken, InflateDone, BootRollback, Update, flash, boot, app
<1>0. IInv
  BY DEF BootInv
<1>1. Chosen \in Index /\ ram.act = Chosen /\ Pointed = Chosen /\ 1 - Chosen # Chosen
  BY <1>0, RegionFacts DEF Pointed
<1>2. Pointed' = 1 - Chosen
  BY <1>0, <1>1, RegionFacts, FlipFacts DEF Pointed
<1>3. CASE CheckBroken \/ BootRollback
  <2>1. slot' = slot /\ ~Startable(slot[Chosen])
    BY <1>1, <1>3 DEF Startable, BootInv, LostInv, TriedInv, Bootable, IInv, RegionInv
  <2>2. Startable(slot[1 - Chosen])
    BY <1>0, <1>1, <2>1, RegionFacts DEF BootInv, SafeInv, AlwaysStartable, OneStartable
  <2>3. Quality = 2
    BY <1>1, <2>1 DEF Quality, Startable, Bootable
  <2> QED BY <1>2, <2>1, <2>2, <2>3 DEF Quality
<1>4. CASE InflateDone
  <2>1. slot[Chosen].kind = "xz" /\ slot[Chosen].whole /\ slot[Chosen].img \notin Flawed
    BY <1>1, <1>4 DEF BootInv, IInv, RegionInv, SafeInv
  <2>2. Quality = 1
    BY <1>1, <2>1 DEF Quality, Startable, Bootable
  <2>3. slot'[1 - Chosen] = Inflated
    BY <1>0, <1>1, <1>4, RegionFacts
  <2>4. Bootable(slot'[1 - Chosen])
    BY <1>1, <2>1, <2>3 DEF Bootable, Inflated
  <2>5. Quality' = 0
    BY <1>2, <2>4 DEF Quality
  <2> QED BY <2>2, <2>5
<1> QED BY <1>3, <1>4

\* Every step of boot2 takes it nearer to an image.
LEMMA RankFalls ==
  ASSUME BootInv, BootInv', pc # "app", Boot2Step
  PROVE  pc' = "app" \/ Rank' < Rank
<1>1. Quality \in 0 .. 2 /\ Place \in 1 .. 8 /\ Quality' \in 0 .. 2 /\ Place' \in 1 .. 8
  BY DEF Quality, Place
<1>2. CASE \/ SelectNormal \/ SelectTemp \/ CheckRaw \/ Inflate \/ InflateSome \/ TableErase
           \/ TableWrite \/ BootTempFails
  BY <1>1, <1>2, PlaceFalls, RankOrder DEF Rank
<1>3. CASE CheckBroken \/ InflateDone \/ BootRollback
  BY <1>1, <1>3, QualityFalls, RankOrder DEF Rank
<1>4. CASE SelectNone \/ BootOk \/ BootFails
  BY <1>4 DEF SelectNone, BootOk, BootFails, BootInv
<1> QED BY <1>2, <1>3, <1>4 DEF Boot2Step

\* No step but one of boot2 or a reset leaves the boot.
LEMMA OnlyBoot2 ==
  ASSUME IInv, pc # "app", [Next]_vars, [~Reset]_vars
  PROVE  Boot2Step \/ UNCHANGED vars
BY DEF Next, AppStep, OtaOpen, OtaReceive, OtaStop, OtaCommit, RequestMfg

\* The invariants the rank of boot2 is about hold at every step.
LEMMA BootInvariance == SoundReleases /\ SoundRequests => (Spec => []BootInv)
<1> SUFFICES ASSUME SoundReleases, SoundRequests PROVE Spec => []BootInv
  OBVIOUS
<1>1. Init => RequestInv
  BY DEF Init, RequestInv, SoundRequests
<1>2. Init => LostInv
  BY DEF Init, LostInv, RolledInv, TriedInv, HaltsOnlyLost
<1>3. IInv /\ SafeInv /\ LostInv /\ RequestInv /\ pc # "halt" => BootInv
  BY DEF BootInv
<1> QED BY <1>1, <1>2, <1>3, RequestNext, LostNext, Invariance, Safety, NeverGivesUp, PTL DEF Spec

Below(n) == pc # "app" => Rank < n

Drops(m, n) == Below(m) ~> Below(n)

\* Without resets, and with boot2 running.
Quiet ==
  /\ [][Next]_vars /\ [][~Reset]_vars
  /\ []BootInv /\ []Boot2CanStep
  /\ WF_vars(Boot2Step)

\* Without resets boot2 lowers its rank again and again.
LEMMA RankDrops ==
  ASSUME NEW m \in Nat, NEW n \in Nat, m = n + 1
  PROVE  Quiet => Drops(m, n)
<1>0. ASSUME BootInv, BootInv', pc # "app", Boot2Step, Below(m)
      PROVE  Below(n)'
  <2>1. Rank \in Nat /\ Rank' \in Nat
    BY DEF Rank, Quality, Place
  <2> QED BY <1>0, <2>1, RankFalls DEF Below
<1>1. BootInv /\ BootInv' /\ Below(m) /\ ~Below(n) /\ [Next]_vars /\ [~Reset]_vars
        => Below(m)' \/ Below(n)'
  <2> SUFFICES ASSUME BootInv, BootInv', Below(m), ~Below(n), [Next]_vars, [~Reset]_vars
               PROVE  Below(m)' \/ Below(n)'
    OBVIOUS
  <2>1. pc # "app"
    BY DEF Below
  <2>2. CASE Boot2Step
    BY <1>0, <2>1, <2>2
  <2>3. CASE UNCHANGED vars
    BY <2>3 DEF vars, flash, boot, app, Below, Rank, Quality, Pointed, Chosen, Place, Inflated
  <2> QED BY <2>1, <2>2, <2>3, OnlyBoot2 DEF BootInv
<1>2. BootInv /\ BootInv' /\ Below(m) /\ ~Below(n) /\ <<Boot2Step>>_vars => Below(n)'
  BY <1>0 DEF Below
<1>3. BootInv /\ ~Below(n) => pc \notin {"app", "halt"}
  BY DEF Below, BootInv
<1> QED BY <1>1, <1>2, <1>3, PTL DEF Quiet, Drops, Boot2CanStep

\* Without resets boot2 ends in an application whenever it runs.
LEMMA QuietBoots == Quiet => []<>(pc = "app")
<1>1. Quiet =>
        /\ Drops(25, 24) /\ Drops(24, 23) /\ Drops(23, 22) /\ Drops(22, 21)
        /\ Drops(21, 20) /\ Drops(20, 19) /\ Drops(19, 18) /\ Drops(18, 17)
        /\ Drops(17, 16) /\ Drops(16, 15) /\ Drops(15, 14) /\ Drops(14, 13)
        /\ Drops(13, 12) /\ Drops(12, 11) /\ Drops(11, 10) /\ Drops(10, 9)
        /\ Drops(9, 8) /\ Drops(8, 7) /\ Drops(7, 6) /\ Drops(6, 5)
        /\ Drops(5, 4) /\ Drops(4, 3) /\ Drops(3, 2) /\ Drops(2, 1)
  BY RankDrops
<1>2. Quiet => Drops(25, 1)
  BY <1>1, PTL DEF Drops
<1>3. Below(25)
  BY DEF Below, Rank, Quality, Place
<1>4. Below(1) => pc = "app"
  BY DEF Below, Rank, Quality, Place
<1> QED BY <1>2, <1>3, <1>4, PTL DEF Drops

\* With sound releases and requests: whenever the device was reset, and however
\* often, once the resets are over boot2 gets to an application. It never waits
\* (Boot2CanStep), and each of its steps lowers the rank.
THEOREM BootsInTheEnd ==
  SoundReleases /\ SoundRequests => (BootSpec /\ []Boot2CanStep /\ <>[][~Reset]_vars => Boots)
<1> SUFFICES ASSUME SoundReleases, SoundRequests
             PROVE  BootSpec /\ []Boot2CanStep /\ <>[][~Reset]_vars => Boots
  OBVIOUS
<1> QED BY BootInvariance, QuietBoots, PTL DEF BootSpec, Spec, Quiet, Boots
===============================================================================
