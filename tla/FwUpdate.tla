-------------------------------- MODULE FwUpdate --------------------------------
(***************************************************************************)
(* Over-the-air update and boot: the two partition tables in flash         *)
(* (partition.c, bl_boot2.c), the second-stage boot loader that chooses,   *)
(* decompresses, checks and rolls back (blsp_boot2.c,                      *)
(* blsp_boot_decompress.c, blsp_media_boot.c) and the application that     *)
(* writes a new image (bl_sys_ota_cli.c, bl_mtd.c, hal_boot2.c).           *)
(*                                                                         *)
(* A step ends where a reset can leave something else in flash.            *)
(***************************************************************************)
EXTENDS Naturals

CONSTANTS Images,     \* what firmware images hold
          Flawed,     \* the images whose hash or signature boot2 rejects
          NoImage,
          Files,      \* what update servers offer
          MfgStates,  \* request and image found in the mfg partition
          FirstTables, FirstImages,  \* valid tables and image on delivery
          MaxAge,     \* no update is started from a table of this age
          MaxResets   \* bound on the resets that are not the updater's own

ASSUME ImagesAssumption == Flawed \subseteq Images /\ NoImage \notin Images
ASSUME FilesAssumption ==
  Files \subseteq [kind : {"raw", "xz"}, img : Images, whole : BOOLEAN]
ASSUME MfgAssumption == MfgStates \subseteq [req : BOOLEAN, boots : BOOLEAN]
ASSUME FirstAssumption == FirstTables \subseteq SUBSET {0, 1} /\ FirstImages \subseteq Images
ASSUME BoundsAssumption == MaxAge \in Nat /\ MaxResets \in Nat

Index == {0, 1}

VARIABLES
  \* flash
  tbl,         \* the two partition tables, cut to the FW entry
  slot,        \* what the two FW regions hold
  mfg,         \* the mfg partition
  hbn,         \* a firmware is requested in HBN_RSV0 (not flash: lost with power)
  \* boot2, and what it passes on to the application
  pc, active, ram,
  user,        \* userFwName asks for mfg
  temp,        \* tempMode
  rollBacked,
  \* the application
  run,         \* "fw", "mfg", or "none" while boot2 runs
  from,        \* the region "fw" executes from
  ota, file,   \* where ota_tcp_cmd is, and what the server sends
  resets

flash == <<tbl, slot, mfg>>
boot  == <<active, ram, user, temp, rollBacked>>
app == <<run, from, ota, file>>
vars == <<flash, hbn, pc, boot, app, resets>>

-------------------------------------------------------------------------------
Blank == [kind |-> "none", img |-> NoImage, whole |-> FALSE]

\* A region of which not everything is written yet.
Part(f) == [f EXCEPT !.whole = FALSE]

NoTable == [ok |-> FALSE, age |-> 0, act |-> 0]

\* The newer table, the first one if they are of one age.
Newest(t) == IF t[0].age >= t[1].age THEN 0 ELSE 1

\* PtTable_Get_Active_Partition_Need_Lock, at least one table being valid.
ActiveOf(t) ==
  IF t[0].ok /\ t[1].ok THEN Newest(t) ELSE IF t[0].ok THEN 0 ELSE 1

\* The table in memory, with its FW entry set to the other region
\* (PtTable_Update_Entry up to the erase).
Flip(t) == [t EXCEPT !.act = 1 - @, !.age = @ + 1]

\* What BLSP_MediaBoot_Parse_One_FW accepts.
Bootable(c) == c.kind = "raw" /\ c.whole /\ c.img \notin Flawed

Init ==
  /\ \E valid \in FirstTables :
       tbl = [i \in Index |-> [ok |-> i \in valid, age |-> 0, act |-> 0]]
  /\ \E i \in FirstImages :
       slot = [s \in Index |-> IF s = 0 THEN [kind |-> "raw", img |-> i, whole |-> TRUE]
                                        ELSE Blank]
  /\ mfg \in MfgStates
  /\ hbn = FALSE
  /\ pc = "select" /\ active = 0 /\ ram = NoTable
  /\ user = FALSE /\ temp = FALSE /\ rollBacked = FALSE
  /\ run = "none" /\ from = 0 /\ ota = "idle" /\ file = Blank
  /\ resets = 0

-------------------------------------------------------------------------------
(***************************************************************************)
(* boot2                                                                   *)
(***************************************************************************)

\* Read both tables, look for a request to start the mfg image.
SelectTable ==
  /\ pc = "select"
  /\ \E i \in Index : tbl[i].ok
  /\ active' = ActiveOf(tbl)
  /\ ram' = tbl[ActiveOf(tbl)]
  /\ UNCHANGED <<flash, rollBacked, app, resets>>

SelectNormal ==
  /\ SelectTable
  /\ ~user /\ ~mfg.req
  /\ temp' = FALSE
  /\ pc' = "check"
  /\ UNCHANGED <<hbn, user>>

\* Mutant: the name stays after its firmware was taken.
SelectTempKeeps ==
  /\ SelectTable
  /\ user \/ mfg.req
  /\ temp' = TRUE
  /\ pc' = "boot"
  /\ hbn' = FALSE
  /\ UNCHANGED user

\* The mfg image is started once: the request in HBN_RSV0 is cleared, the one
\* in the mfg partition is not.
SelectTemp ==
  /\ SelectTable
  /\ user \/ mfg.req
  /\ temp' = TRUE
  /\ pc' = "boot"
  /\ hbn' = FALSE
  /\ user' = FALSE

\* BLSP_Boot2_On_Error
SelectNone ==
  /\ pc = "select"
  /\ \A i \in Index : ~tbl[i].ok
  /\ pc' = "halt"
  /\ UNCHANGED <<flash, hbn, boot, app, resets>>

\* Every update of a table by boot2 or by the application.
Update ==
  /\ ram' = Flip(ram)
  /\ pc' = "erase"

CheckRaw ==
  /\ pc = "check"
  /\ slot[ram.act].kind # "xz"
  /\ pc' = "boot"
  /\ UNCHANGED <<flash, hbn, boot, app, resets>>

\* BLSP_Boot2_Update_Fw: the trial decompression fails, go back to the other
\* region.
CheckBroken ==
  /\ pc = "check"
  /\ slot[ram.act].kind = "xz" /\ ~slot[ram.act].whole
  /\ Update
  /\ UNCHANGED <<flash, hbn, active, user, temp, rollBacked, app, resets>>

\* Mutant: the other region is erased before the image is tried.
InflateUntried ==
  /\ pc = "check"
  /\ slot[ram.act].kind = "xz"
  /\ slot' = [slot EXCEPT ![1 - ram.act] = Blank]
  /\ pc' = "inflate"
  /\ UNCHANGED <<tbl, mfg, hbn, boot, app, resets>>

\* The trial succeeds: erase the other region.
Inflate ==
  /\ pc = "check"
  /\ slot[ram.act].kind = "xz" /\ slot[ram.act].whole
  /\ slot' = [slot EXCEPT ![1 - ram.act] = Blank]
  /\ pc' = "inflate"
  /\ UNCHANGED <<tbl, mfg, hbn, boot, app, resets>>

Inflated == [kind |-> "raw", img |-> slot[ram.act].img, whole |-> TRUE]

InflateSome ==
  /\ pc = "inflate"
  /\ slot[1 - ram.act] # Part(Inflated)
  /\ slot' = [slot EXCEPT ![1 - ram.act] = Part(Inflated)]
  /\ UNCHANGED <<tbl, mfg, hbn, pc, boot, app, resets>>

\* Mutant: the table is updated before the last block is written.
InflateDoneEarly ==
  /\ pc = "inflate"
  /\ slot[1 - ram.act] = Part(Inflated)
  /\ Update
  /\ UNCHANGED <<flash, hbn, active, user, temp, rollBacked, app, resets>>

InflateDone ==
  /\ pc = "inflate"
  /\ slot[1 - ram.act] = Part(Inflated)
  /\ slot' = [slot EXCEPT ![1 - ram.act] = Inflated]
  /\ Update
  /\ UNCHANGED <<tbl, mfg, hbn, active, user, temp, rollBacked, app, resets>>

\* The table that is not the active one.
Target == 1 - active

\* PtTable_Update_Entry: erase the table, then write it.
TableErase ==
  /\ pc = "erase"
  /\ tbl' = [tbl EXCEPT ![Target].ok = FALSE]
  /\ pc' = "write"
  /\ UNCHANGED <<slot, mfg, hbn, boot, app, resets>>

\* boot2 reads the tables again, the application reboots.
TableWrite ==
  /\ pc = "write"
  /\ tbl' = [tbl EXCEPT ![Target] = ram]
  /\ pc' = "select"
  /\ \/ /\ run = "none"
        /\ UNCHANGED <<user, rollBacked, ota>>
     \/ /\ run # "none"
        /\ user' = hbn /\ rollBacked' = FALSE /\ ota' = "idle"
  /\ run' = "none"
  /\ UNCHANGED <<slot, mfg, hbn, active, ram, temp, from, file, resets>>

\* BLSP_MediaBoot_Main jumps to the image.
BootOk ==
  /\ pc = "boot"
  /\ \/ temp /\ mfg.boots /\ run' = "mfg" /\ UNCHANGED from
     \/ ~temp /\ Bootable(slot[ram.act]) /\ run' = "fw" /\ from' = ram.act
  /\ pc' = "app"
  /\ UNCHANGED <<flash, hbn, boot, ota, file, resets>>

\* Mutant: only the image the mfg partition asks for is given up.
BootTempFailsMfg ==
  /\ pc = "boot" /\ temp
  /\ ~mfg.boots /\ mfg.req
  /\ pc' = "select"
  /\ UNCHANGED <<flash, hbn, boot, app, resets>>

BootTempFails ==
  /\ pc = "boot" /\ temp
  /\ ~mfg.boots
  /\ pc' = "select"
  /\ UNCHANGED <<flash, hbn, boot, app, resets>>

\* BLSP_Boot2_Rollback_PtEntry
BootRollback ==
  /\ pc = "boot" /\ ~temp /\ ~rollBacked
  /\ ~Bootable(slot[ram.act])
  /\ rollBacked' = TRUE
  /\ Update
  /\ UNCHANGED <<flash, hbn, active, user, temp, app, resets>>

\* Mutant: built without BLSP_BOOT2_ROLLBACK.
BootFailsAtOnce ==
  /\ pc = "boot" /\ ~temp
  /\ ~Bootable(slot[ram.act])
  /\ pc' = "halt"
  /\ UNCHANGED <<flash, hbn, boot, app, resets>>

BootFails ==
  /\ pc = "boot" /\ ~temp /\ rollBacked
  /\ ~Bootable(slot[ram.act])
  /\ pc' = "halt"
  /\ UNCHANGED <<flash, hbn, boot, app, resets>>

-------------------------------------------------------------------------------
(***************************************************************************)
(* The application: ota_tcp_cmd (not offered by the external mfg image)    *)
(***************************************************************************)

\* Mutant: the active region is opened.
BackupActive == ram.act

\* hal_boot2_partition_addr_inactive on the table boot2 has passed.
Backup == 1 - ram.act

\* Open and erase the backup region.
OtaOpen ==
  /\ pc = "app" /\ run = "fw" /\ ota = "idle"
  /\ ram.age < MaxAge
  /\ slot' = [slot EXCEPT ![Backup] = Blank]
  /\ ota' = "open"
  /\ UNCHANGED <<tbl, mfg, hbn, pc, boot, run, from, file, resets>>

\* Blocks of the file arrive and are written, at most all of them.
OtaReceive(f) ==
  /\ pc = "app" /\ ota = "open"
  /\ file' = f
  /\ \E c \in {Part(f), f} : slot' = [slot EXCEPT ![Backup] = c]
  /\ ota' = "stream"
  /\ UNCHANGED <<tbl, mfg, hbn, pc, boot, run, from, resets>>

\* No connection, the stream ends early, or its SHA256 is not the header's.
OtaStop ==
  /\ pc = "app" /\ ota # "idle"
  /\ ota' = "idle"
  /\ UNCHANGED <<flash, hbn, pc, boot, run, from, file, resets>>

\* The last block is written and the SHA256 is right: hal_boot2_update_ptable.
OtaCommit ==
  /\ pc = "app" /\ ota = "stream"
  /\ slot' = [slot EXCEPT ![Backup] = file]
  /\ Update
  /\ UNCHANGED <<tbl, mfg, hbn, active, user, temp, rollBacked, app, resets>>

\* The application leaves a request in HBN_RSV0 (external).
RequestMfg ==
  /\ pc = "app" /\ ~hbn
  /\ hbn' = TRUE
  /\ UNCHANGED <<flash, pc, boot, app, resets>>

\* A reset at any moment; HBN_RSV0 survives all but a loss of power.
Reset ==
  /\ resets < MaxResets
  /\ resets' = resets + 1
  /\ hbn' \in {hbn, FALSE}
  /\ user' = hbn'
  /\ pc' = "select" /\ active' = 0 /\ ram' = NoTable
  /\ temp' = FALSE /\ rollBacked' = FALSE
  /\ run' = "none" /\ ota' = "idle"
  /\ UNCHANGED <<flash, from, file>>

-------------------------------------------------------------------------------
Boot2Step ==
  \/ SelectNormal \/ SelectTemp \/ SelectNone
  \/ CheckRaw \/ CheckBroken \/ Inflate \/ InflateSome \/ InflateDone
  \/ TableErase \/ TableWrite
  \/ BootOk \/ BootTempFails \/ BootRollback \/ BootFails

AppStep ==
  \/ OtaOpen \/ OtaStop \/ OtaCommit \/ RequestMfg
  \/ \E f \in Files : OtaReceive(f)

Next == Boot2Step \/ AppStep \/ Reset

Spec == Init /\ [][Next]_vars

\* The processor executes boot2, and the update of a table the application
\* has begun.
BootSpec == Spec /\ WF_vars(Boot2Step)

-------------------------------------------------------------------------------
(***************************************************************************)
(* Properties                                                              *)
(***************************************************************************)

Contents == [kind : {"none", "raw", "xz"}, img : Images \cup {NoImage}, whole : BOOLEAN]
Table == [ok : BOOLEAN, age : Nat, act : Index]

\* The type invariant of flash, boot2 and the updater.
TypeOK ==
  /\ tbl \in [Index -> Table]
  /\ slot \in [Index -> Contents]
  /\ mfg \in [req : BOOLEAN, boots : BOOLEAN]
  /\ hbn \in BOOLEAN /\ user \in BOOLEAN /\ temp \in BOOLEAN /\ rollBacked \in BOOLEAN
  /\ pc \in {"select", "check", "inflate", "erase", "write", "boot", "app", "halt"}
  /\ active \in Index /\ ram \in Table
  /\ run \in {"fw", "mfg", "none"} /\ from \in Index
  /\ ota \in {"idle", "open", "stream"} /\ file \in Contents
  /\ resets \in Nat

\* Whenever the power goes, one partition table is valid: an update erases
\* the other one only (partition.c:337, blsp_boot2.c:466).
SomeTable == \E i \in Index : tbl[i].ok

\* Something boot2 can start from: an image it accepts, or a compressed one
\* that holds such an image.
Startable(c) ==
  c.kind \in {"raw", "xz"} /\ c.whole /\ c.img \notin Flawed

Chosen == tbl[ActiveOf(tbl)].act

\* Delivered with a table and an image that starts, and offered compressed
\* images of which those that decompress can be started.
SoundReleases ==
  /\ {} \notin FirstTables
  /\ FirstImages \cap Flawed = {}
  /\ \A f \in Files : f.kind = "xz" /\ f.whole => f.img \notin Flawed

\* What asks for the image of the mfg partition comes with one that boots.
SoundRequests == \A m \in MfgStates : m.req => m.boots

OneStartable == \E s \in Index : Startable(slot[s])

\* At every moment a region holds an image boot2 can start: the one the
\* tables choose or, after a flawed update, the one it rolls back to.  An
\* update erases a region, and decompression another (partition.c:337,
\* blsp_boot_decompress.c:107, bl_sys_ota_cli.c:199).
AlwaysStartable == SomeTable /\ OneStartable

\* Whatever it was delivered with and whatever is offered, boot2 gives up
\* (blsp_boot2.c:467, 541) only when there is nothing left to start.
HaltsOnlyLost == pc = "halt" => ~SomeTable \/ ~OneStartable

(***************************************************************************)
(* The inductive invariant (FwUpdateProofs)                                *)
(***************************************************************************)

\* The table in memory against the tables in flash.
TableInv ==
  /\ ~SomeTable => pc \in {"select", "halt"}
  /\ pc \in {"check", "inflate", "boot", "app"} =>
       active = ActiveOf(tbl) /\ ram = tbl[active]
  /\ pc \in {"erase", "write"} =>
       /\ tbl[active].ok /\ active = ActiveOf(tbl)
       /\ ram.ok /\ ram.age = tbl[active].age + 1 /\ ram.act = 1 - tbl[active].act
  /\ pc = "write" => ~tbl[1 - active].ok

\* The regions against the tables: what runs is what the tables choose, and
\* boot2 decompresses out of that region only.
RegionInv ==
  /\ (run = "none") <=> pc \in {"select", "check", "inflate", "boot", "halt"}
                       \/ (pc \in {"erase", "write"} /\ ota = "idle")
  /\ run = "fw" => from = Chosen /\ Bootable(slot[from])
  /\ ota # "idle" => run = "fw"
  /\ pc \in {"check", "inflate", "boot"} => ota = "idle"
  /\ pc = "inflate" => slot[Chosen].kind = "xz" /\ slot[Chosen].whole
  /\ file = Blank \/ file \in Files
  /\ ota = "stream" => file \in Files

\* Memory and flash agree at every step, whatever was delivered and offered,
\* and while a table is erased the other one is valid and the older.
IInv == TypeOK /\ TableInv /\ RegionInv

\* The region an image executes from is never erased or written, nor is the
\* compressed image boot2 reads from (XIP, blsp_boot_decompress.c:106).
SourceKept ==
  [][/\ run = "fw" => slot'[from] = slot[from]
     /\ pc = "inflate" => slot'[Chosen] = slot[Chosen]]_vars

\* No state of flash and memory stops boot2 on its way: until it has jumped to an
\* image or given up, one of its branches applies (blsp_boot2.c:463).
Boot2CanStep == pc \notin {"app", "halt"} => ENABLED <<Boot2Step>>_vars

\* Whatever is reset when, boot2 gets to an application.
Boots == pc # "app" ~> pc = "app"

\* blsp_boot2.c:534: "Fail in temp mode,continue to boot normal image".
TempThenNormal ==
  (pc = "boot" /\ temp /\ ~mfg.boots) ~> (pc = "boot" /\ ~temp)

\* An update is atomic and is undone only when its image cannot be started
\* (AtomicUpdate).
Release(c) == [img |-> c.img, good |-> Startable(c)]

Atomic == INSTANCE AtomicUpdate
  WITH Releases <- {Release(f) : f \in Files},
       First <- {Release([kind |-> "raw", img |-> i, whole |-> TRUE]) : i \in FirstImages},
       cur <- Release(slot[Chosen]),
       safe <- Release(slot[IF Startable(slot[Chosen]) THEN Chosen ELSE 1 - Chosen])

ImplementsAtomicUpdate == Atomic!Spec
===============================================================================
