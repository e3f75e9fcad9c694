---------------------------- MODULE BackupAgent ----------------------------
(***************************************************************************)
(* The backup agent: every oneshot `backup-agent run --report` process of  *)
(* one host (agent/main.py run_backup, agent/backup.py BackupEngine.run),  *)
(* the temporary directory those processes share, the object store they    *)
(* upload to, and the rows the Backup API ends up holding.                 *)
(*                                                                         *)
(* A step is one interaction with something shared: a file opened, bytes   *)
(* written, a name unlinked or renamed, an object put, a report posted.    *)
(* Between two steps any other process may run, and a process may be       *)
(* killed.  Bytes are abstracted to the set of jobs whose dump they come   *)
(* from, with Cut among them when a part is missing: the complete, unmixed *)
(* dump of job j is {j} and an empty file is {}.  gzip and SHA-256 are     *)
(* injective on what is told apart here: the compressed file holds the     *)
(* same set, and a checksum is the set itself.                             *)
(***************************************************************************)
EXTENDS FiniteSets

CONSTANTS
  Job,        \* the agent processes of this host, each started at most once
  Temp,       \* file names in TEMP_DIR, without the .dump / .dump.gz suffix
  Key,        \* remote keys <bucket>/<application>/<date>/<file name>
  TempOf,     \* the name each job uses: <db_name>_<start time in seconds>
  KeyOf,      \* the key each job uploads to
  S3,         \* the jobs configured with STORAGE_DRIVER=s3 (the others: local)
  MySQL,      \* the jobs whose DATABASE_TYPE is mysql (the others: postgresql)
  CommitFirst,\* the API commits before it answers: true of FastAPI < 0.118
  None        \* Python's None; also: no file under a name

\* What a file can be: the raw dump or the compressed file a job created, or
\* the copy that put_object made in the bucket.
File == Job \X {"raw", "gz", "obj"}

\* Bytes come from the dump of a job; Cut marks a file that lacks some.
Cut == "cut"
Byte == Job \cup {Cut}

(***************************************************************************)
(* The names are what the agent computes: the key of a job ends in the     *)
(* file name of its temporary file (BackupEngine._remote_path).            *)
(***************************************************************************)
ASSUME NamesAssumption ==
  /\ TempOf \in [Job -> Temp]
  /\ KeyOf \in [Job -> Key]
  /\ \A i, j \in Job : KeyOf[i] = KeyOf[j] => TempOf[i] = TempOf[j]
  /\ S3 \subseteq Job
  /\ MySQL \subseteq Job

ASSUME CommitFirstAssumption == CommitFirst \in BOOLEAN

ASSUME NoneAssumption ==
  None \notin File /\ None \notin {"SUCCESS", "FAILED"} /\ None \notin {0, 1}

\* No other process of the host works on the same database name in the same
\* second.  Not an assumption about all jobs: nothing in the code enforces it.
Private(j) == \A i \in Job : TempOf[i] = TempOf[j] => i = j

VARIABLES
  pc,       \* where each process is
  rawDir,   \* TEMP_DIR/<name>.dump: the file under each name, or None
  gzDir,    \* TEMP_DIR/<name>.dump.gz
  store,    \* the object under each remote key
  bytes,    \* what every file holds, still open or not, named or not
  rawFd,    \* the raw file each job has open (it writes it, then reads it)
  gzFd,     \* the compressed file each job has open
  checksum, \* ValidationResult.checksum
  outcome,  \* BackupOutcome.status and storage_path
  exit,     \* the exit code
  ledger    \* the rows the API committed

files == <<rawDir, gzDir, store, bytes>>
vars == <<pc, rawDir, gzDir, store, bytes, rawFd, gzFd, checksum, outcome,
          exit, ledger>>

Running == {"open", "dump", "check", "gzip", "copy", "unlink", "validate",
            "hash", "upload", "rehash", "verify", "report"}
Ended   == {"exited", "raised", "killed"}

Undecided == [status |-> None, path |-> None]
Failed(path) == [status |-> "FAILED", path |-> path]
Success(path) == [status |-> "SUCCESS", path |-> path]

Row(j) == [job |-> j, status |-> outcome[j].status, path |-> outcome[j].path,
           checksum |-> IF outcome[j].status = "SUCCESS" THEN checksum[j]
                                                         ELSE None]

Init ==
  /\ pc = [j \in Job |-> "idle"]
  /\ rawDir = [t \in Temp |-> None]
  /\ gzDir = [t \in Temp |-> None]
  /\ store = [k \in Key |-> None]
  /\ bytes = [f \in File |-> {}]
  /\ rawFd = [j \in Job |-> None]
  /\ gzFd = [j \in Job |-> None]
  /\ checksum = [j \in Job |-> None]
  /\ outcome = [j \in Job |-> Undecided]
  /\ exit = [j \in Job |-> None]
  /\ ledger = {}

-----------------------------------------------------------------------------
\* Control flow shared by the steps.

Goto(j, from, to) == pc[j] = from /\ pc' = [pc EXCEPT ![j] = to]

\* _finish: the outcome is failed and the run goes on to cleanup and report.
Finish(j, from, path) ==
  /\ Goto(j, from, "report")
  /\ outcome' = [outcome EXCEPT ![j] = Failed(path)]

\* An exception nothing catches ends the process: no outcome, no report, and
\* the interpreter exits with 1.
Raise(j, from) ==
  /\ Goto(j, from, "raised")
  /\ exit' = [exit EXCEPT ![j] = 1]

\* open(path, "wb"): the file under the name is truncated, or a new one made.
Opened(dir, t, new) == IF dir[t] = None THEN new ELSE dir[t]

\* The bytes under a name, none when there is no file.
Held(dir, t) == IF dir[t] = None THEN {} ELSE bytes[dir[t]]

\* Writing through a descriptor another process may have truncated or written
\* through as well: the writer's bytes, and whatever survives of the others'.
Overwritten(f, new) == {kept \cup new : kept \in SUBSET bytes[f]}

-----------------------------------------------------------------------------
\* DatabaseDumper.dump

\* run starts; dump makes TEMP_DIR and composes the file names.
Start(j) ==
  /\ Goto(j, "idle", "open")
  /\ UNCHANGED <<files, rawFd, gzFd, checksum, outcome, exit, ledger>>

\* The directory or the raw file cannot be made.
StartRaises(j) ==
  /\ \E from \in {"idle", "open"} : Raise(j, from)
  /\ UNCHANGED <<files, rawFd, gzFd, checksum, outcome, ledger>>

\* The raw file is opened: by the agent for mysqldump's output, by pg_dump
\* itself for --file.
OpenRaw(j) ==
  LET t == TempOf[j]
      f == Opened(rawDir, t, <<j, "raw">>)
  IN /\ Goto(j, "open", "dump")
     /\ rawDir' = [rawDir EXCEPT ![t] = f]
     /\ bytes' = [bytes EXCEPT ![f] = {}]
     /\ rawFd' = [rawFd EXCEPT ![j] = f]
     /\ UNCHANGED <<gzDir, store, gzFd, checksum, outcome, exit, ledger>>

\* The dump tool is not on PATH.  The agent had already created mysqldump's
\* output file; it stays.
ToolMissing(j) ==
  LET t == TempOf[j]
      f == Opened(rawDir, t, <<j, "raw">>)
  IN /\ Finish(j, "open", None)
     /\ \/ /\ j \in MySQL
           /\ rawDir' = [rawDir EXCEPT ![t] = f]
           /\ bytes' = [bytes EXCEPT ![f] = {}]
        \/ /\ j \notin MySQL
           /\ UNCHANGED <<rawDir, bytes>>
     /\ UNCHANGED <<gzDir, store, rawFd, gzFd, checksum, exit, ledger>>

\* The tool exits with 0 having written its dump ...
Dump(j) ==
  /\ Goto(j, "dump", "check")
  /\ \E b \in Overwritten(rawFd[j], {j}) : bytes' = [bytes EXCEPT ![rawFd[j]] = b]
  /\ rawFd' = [rawFd EXCEPT ![j] = None]
  /\ UNCHANGED <<rawDir, gzDir, store, gzFd, checksum, outcome, exit, ledger>>

\* ... or with 0 having written nothing ...
DumpNothing(j) ==
  /\ Goto(j, "dump", "check")
  /\ rawFd' = [rawFd EXCEPT ![j] = None]
  /\ UNCHANGED <<files, gzFd, checksum, outcome, exit, ledger>>

\* Mutant of DumpFails: the exit code of the tool is not looked at.
DumpExitIgnored(j) ==
  /\ Goto(j, "dump", "check")
  /\ \E b \in {{}, {j}, {j, Cut}} :
        bytes' = [bytes EXCEPT ![rawFd[j]] = @ \cup b]
  /\ rawFd' = [rawFd EXCEPT ![j] = None]
  /\ UNCHANGED <<rawDir, gzDir, store, gzFd, checksum, outcome, exit, ledger>>

\* Mutant of DumpFails: no `with` around the output file of mysqldump, and the
\* error is returned before the file is closed.
DumpLeavesFileOpen(j) ==
  /\ Finish(j, "dump", None)
  /\ \E b \in {{}, {j}, {j, Cut}} :
        bytes' = [bytes EXCEPT ![rawFd[j]] = @ \cup b]
  /\ UNCHANGED <<rawDir, gzDir, store, rawFd, gzFd, checksum, exit, ledger>>

\* ... or with another code after part of it (exited with code ...).
DumpFails(j) ==
  /\ Finish(j, "dump", None)
  /\ \E b \in {{}, {j}, {j, Cut}} :
        bytes' = [bytes EXCEPT ![rawFd[j]] = @ \cup b]
  /\ rawFd' = [rawFd EXCEPT ![j] = None]
  /\ UNCHANGED <<rawDir, gzDir, store, gzFd, checksum, exit, ledger>>

\* "dump produced an empty file": the name is gone or the file is empty.
CheckEmpty(j) ==
  /\ Held(rawDir, TempOf[j]) = {}
  /\ Finish(j, "check", None)
  /\ UNCHANGED <<files, rawFd, gzFd, checksum, exit, ledger>>

CheckRaw(j) ==
  /\ Held(rawDir, TempOf[j]) # {}
  /\ Goto(j, "check", "gzip")
  /\ UNCHANGED <<files, rawFd, gzFd, checksum, outcome, exit, ledger>>

\* open(raw_path, "rb"), gzip.open(gz_path, "wb")
OpenGz(j) ==
  LET t == TempOf[j]
      f == Opened(gzDir, t, <<j, "gz">>)
  IN /\ rawDir[t] # None
     /\ Goto(j, "gzip", "copy")
     /\ gzDir' = [gzDir EXCEPT ![t] = f]
     /\ bytes' = [bytes EXCEPT ![f] = {}]
     /\ rawFd' = [rawFd EXCEPT ![j] = rawDir[t]]
     /\ gzFd' = [gzFd EXCEPT ![j] = f]
     /\ UNCHANGED <<rawDir, store, checksum, outcome, exit, ledger>>

\* Another process unlinked the raw file, or the compressed file cannot be
\* made: an exception dump does not catch.
OpenGzRaises(j) ==
  /\ Raise(j, "gzip")
  /\ UNCHANGED <<files, rawFd, gzFd, checksum, outcome, ledger>>

Copy(j) ==
  /\ Goto(j, "copy", "unlink")
  /\ \E b \in Overwritten(gzFd[j], bytes[rawFd[j]]) :
        bytes' = [bytes EXCEPT ![gzFd[j]] = b]
  /\ rawFd' = [rawFd EXCEPT ![j] = None]
  /\ gzFd' = [gzFd EXCEPT ![j] = None]
  /\ UNCHANGED <<rawDir, gzDir, store, checksum, outcome, exit, ledger>>

\* Mutant of CopyRaises: the error of the compression is swallowed.
CopyErrorSwallowed(j) ==
  /\ Goto(j, "copy", "unlink")
  /\ \E b \in {{}, bytes[rawFd[j]] \cup {Cut}} :
        bytes' = [bytes EXCEPT ![gzFd[j]] = @ \cup b]
  /\ rawFd' = [rawFd EXCEPT ![j] = None]
  /\ gzFd' = [gzFd EXCEPT ![j] = None]
  /\ UNCHANGED <<rawDir, gzDir, store, checksum, outcome, exit, ledger>>

\* The disk fills up under shutil.copyfileobj: part of the file is written.
CopyRaises(j) ==
  /\ Raise(j, "copy")
  /\ \E b \in {{}, bytes[rawFd[j]] \cup {Cut}} :
        bytes' = [bytes EXCEPT ![gzFd[j]] = @ \cup b]
  /\ rawFd' = [rawFd EXCEPT ![j] = None]
  /\ gzFd' = [gzFd EXCEPT ![j] = None]
  /\ UNCHANGED <<rawDir, gzDir, store, checksum, outcome, ledger>>

\* Mutant of UnlinkRaw: the raw dump is forgotten.
UnlinkForgotten(j) ==
  /\ Goto(j, "unlink", "validate")
  /\ UNCHANGED <<files, rawFd, gzFd, checksum, outcome, exit, ledger>>

\* raw_path.unlink(missing_ok=True)
UnlinkRaw(j) ==
  /\ Goto(j, "unlink", "validate")
  /\ rawDir' = [rawDir EXCEPT ![TempOf[j]] = None]
  /\ UNCHANGED <<gzDir, store, bytes, rawFd, gzFd, checksum, outcome, exit, ledger>>

-----------------------------------------------------------------------------
\* Validator.validate_local

\* "file not created" / "file size is zero": the name is gone, or another
\* process has just truncated the file.
ValidateFails(j) ==
  /\ Held(gzDir, TempOf[j]) = {}
  /\ Finish(j, "validate", None)
  /\ UNCHANGED <<files, rawFd, gzFd, checksum, exit, ledger>>

\* What was compressed may have been empty by then: the header and the trailer
\* of gzip make a file of some bytes all the same, once it has been closed.  The
\* model does not tell that file from one that was never written to, so with a
\* closed file of no dump either step may be taken.
Validate(j) ==
  /\ gzDir[TempOf[j]] # None
  /\ Held(gzDir, TempOf[j]) = {} => \A i \in Job : gzFd[i] # gzDir[TempOf[j]]
  /\ Goto(j, "validate", "hash")
  /\ UNCHANGED <<files, rawFd, gzFd, checksum, outcome, exit, ledger>>

\* storage.sha256(local_path)
Hash(j) ==
  /\ gzDir[TempOf[j]] # None
  /\ Goto(j, "hash", "upload")
  /\ checksum' = [checksum EXCEPT ![j] = bytes[gzDir[TempOf[j]]]]
  /\ UNCHANGED <<files, rawFd, gzFd, outcome, exit, ledger>>

\* The file went away between is_file and open, or cannot be read.
HashRaises(j) ==
  /\ Raise(j, "hash")
  /\ UNCHANGED <<files, rawFd, gzFd, checksum, outcome, ledger>>

-----------------------------------------------------------------------------
\* storage.upload, inside the try of BackupEngine.run

\* "upload failed": the local file is gone, the rename or the put is refused,
\* the store is unreachable.  Nothing is stored.
UploadFails(j) ==
  /\ Finish(j, "upload", None)
  /\ UNCHANGED <<files, rawFd, gzFd, checksum, exit, ledger>>

\* LocalStorage.upload: the very file is renamed into the base directory.
LocalUpload(j) ==
  LET t == TempOf[j]
  IN /\ j \notin S3
     /\ gzDir[t] # None
     /\ Goto(j, "upload", "rehash")
     /\ store' = [store EXCEPT ![KeyOf[j]] = gzDir[t]]
     /\ gzDir' = [gzDir EXCEPT ![t] = None]
     /\ UNCHANGED <<rawDir, bytes, rawFd, gzFd, checksum, outcome, exit, ledger>>

\* ... and then hashed once more; run drops the result.
LocalRehash(j) ==
  /\ Goto(j, "rehash", "verify")
  /\ UNCHANGED <<files, rawFd, gzFd, checksum, outcome, exit, ledger>>

\* A read error there is an upload failure, with the object in place.
LocalRehashFails(j) ==
  /\ Finish(j, "rehash", None)
  /\ UNCHANGED <<files, rawFd, gzFd, checksum, exit, ledger>>

\* S3Storage.upload: put_object copies the bytes into the bucket.  The store
\* may have taken the object although the client sees an error.
S3Upload(j) ==
  LET t == TempOf[j]
      f == <<j, "obj">>
  IN /\ j \in S3
     /\ gzDir[t] # None
     /\ store' = [store EXCEPT ![KeyOf[j]] = f]
     /\ bytes' = [bytes EXCEPT ![f] = bytes[gzDir[t]]]
     /\ \/ Goto(j, "upload", "verify") /\ UNCHANGED outcome
        \/ Finish(j, "upload", None)
     /\ UNCHANGED <<rawDir, gzDir, rawFd, gzFd, checksum, exit, ledger>>

-----------------------------------------------------------------------------
\* verify_object, cleanup and the report

\* cleanup then gets the remote key of a run whose object is missing.  That is
\* a path below the working directory, where no file of TEMP_DIR or of the
\* store is: nothing is removed.
Verify(j) ==
  /\ Goto(j, "verify", "report")
  /\ outcome' = [outcome EXCEPT ![j] =
        IF store[KeyOf[j]] # None THEN Success(KeyOf[j]) ELSE Failed(KeyOf[j])]
  /\ UNCHANGED <<files, rawFd, gzFd, checksum, exit, ledger>>

\* S3Storage.exists raises again on anything but a 404.
VerifyRaises(j) ==
  /\ j \in S3
  /\ Raise(j, "verify")
  /\ UNCHANGED <<files, rawFd, gzFd, checksum, outcome, ledger>>

\* Reporter.report: one POST.  Accepted: the row is in the database, or, where
\* the API answers before it commits, the commit may still fail.
ReportAccepted(j) ==
  /\ Goto(j, "report", "exited")
  /\ \/ ledger' = ledger \cup {Row(j)}
     \/ ~CommitFirst /\ UNCHANGED ledger
  /\ exit' = [exit EXCEPT ![j] = IF outcome[j].status = "SUCCESS" THEN 0 ELSE 1]
  /\ UNCHANGED <<files, rawFd, gzFd, checksum, outcome>>

\* Mutant of ReportLost: the exit code follows the outcome alone.
ReportLossIgnored(j) ==
  /\ Goto(j, "report", "exited")
  /\ exit' = [exit EXCEPT ![j] = IF outcome[j].status = "SUCCESS" THEN 0 ELSE 1]
  /\ UNCHANGED <<files, rawFd, gzFd, checksum, outcome, ledger>>

\* The API refuses it, or cannot be reached.  There is no second attempt.
ReportLost(j) ==
  /\ Goto(j, "report", "exited")
  /\ exit' = [exit EXCEPT ![j] = 1]
  /\ UNCHANGED <<files, rawFd, gzFd, checksum, outcome, ledger>>

\* The API commits the row, the answer does not arrive within 30 seconds.
ReportUnheard(j) ==
  /\ Goto(j, "report", "exited")
  /\ ledger' = ledger \cup {Row(j)}
  /\ exit' = [exit EXCEPT ![j] = 1]
  /\ UNCHANGED <<files, rawFd, gzFd, checksum, outcome>>

\* SIGKILL, a reboot, the out-of-memory killer: what was being written is cut,
\* and a report that was under way the API may commit all the same.
Kill(j) ==
  /\ pc[j] \in Running
  /\ pc' = [pc EXCEPT ![j] = "killed"]
  /\ \/ UNCHANGED <<bytes, ledger>>
     \/ /\ pc[j] = "dump" /\ UNCHANGED ledger
        /\ bytes' = [bytes EXCEPT ![rawFd[j]] = @ \cup {j, Cut}]
     \/ /\ pc[j] = "copy" /\ UNCHANGED ledger
        /\ bytes' = [bytes EXCEPT ![gzFd[j]] = @ \cup bytes[rawFd[j]] \cup {Cut}]
     \/ /\ pc[j] = "report" /\ UNCHANGED bytes
        /\ ledger' = ledger \cup {Row(j)}
  /\ rawFd' = [rawFd EXCEPT ![j] = None]
  /\ gzFd' = [gzFd EXCEPT ![j] = None]
  /\ UNCHANGED <<rawDir, gzDir, store, checksum, outcome, exit>>

-----------------------------------------------------------------------------
DumpStep(j) ==
  \/ Start(j) \/ StartRaises(j) \/ OpenRaw(j) \/ ToolMissing(j)
  \/ Dump(j) \/ DumpNothing(j) \/ DumpFails(j)
  \/ CheckEmpty(j) \/ CheckRaw(j) \/ OpenGz(j) \/ OpenGzRaises(j)
  \/ Copy(j) \/ CopyRaises(j) \/ UnlinkRaw(j)

UploadStep(j) ==
  \/ ValidateFails(j) \/ Validate(j) \/ Hash(j) \/ HashRaises(j)
  \/ UploadFails(j) \/ LocalUpload(j) \/ LocalRehash(j) \/ LocalRehashFails(j)
  \/ S3Upload(j)

ReportStep(j) ==
  \/ Verify(j) \/ VerifyRaises(j)
  \/ ReportAccepted(j) \/ ReportLost(j) \/ ReportUnheard(j)

Step(j) == DumpStep(j) \/ UploadStep(j) \/ ReportStep(j)

Next == \E j \in Job : Step(j) \/ Kill(j)

Spec == Init /\ [][Next]_vars

-----------------------------------------------------------------------------
Digest == {None} \cup SUBSET Byte

\* The types, and what they depend on: a file is open exactly where the process
\* reads or writes it, on every way out of that place (the `with` statements of
\* database.py:103, :132 and :133), and what is reported has been decided.
TypeOK ==
  /\ pc \in [Job -> {"idle"} \cup Running \cup Ended]
  /\ rawDir \in [Temp -> File \cup {None}]
  /\ gzDir \in [Temp -> File \cup {None}]
  /\ store \in [Key -> File \cup {None}]
  /\ bytes \in [File -> SUBSET Byte]
  /\ rawFd \in [Job -> File \cup {None}]
  /\ gzFd \in [Job -> File \cup {None}]
  /\ checksum \in [Job -> Digest]
  /\ outcome \in [Job -> [status : {"SUCCESS", "FAILED", None}, path : Key \cup {None}]]
  /\ exit \in [Job -> {0, 1, None}]
  /\ ledger \subseteq [job : Job, status : {"SUCCESS", "FAILED"},
                       path : Key \cup {None}, checksum : Digest]
  /\ \A j \in Job :
        /\ rawFd[j] # None <=> pc[j] \in {"dump", "copy"}
        /\ gzFd[j] # None <=> pc[j] = "copy"
        /\ pc[j] = "report" => outcome[j].status # None

\* The checksum of a SUCCESS row is that of the object it names, now and for
\* as long as the row exists: the agent logs "checksum verified"
\* (agent/backup.py:99), and a failed checksum is a failed backup (PRD
\* section 8, line 211).
Holds(r) == store[r.path] # None /\ bytes[store[r.path]] = r.checksum

ChecksumHolds == \A r \in ledger : r.status = "SUCCESS" => Holds(r)

\* For a job that shares its temporary names with no other it does hold, and
\* the object is the complete and unmixed dump of the very run that reported
\* it, whatever the other jobs of the host do to each other's files.
SuccessIntact ==
  \A r \in ledger : r.status = "SUCCESS" /\ Private(r.job) =>
    Holds(r) /\ r.checksum = {r.job}

\* Where the API commits before it answers (CommitFirst), exit code 0 tells
\* systemd that the success is on record there, however the upload, the
\* verification and the report raced or failed (agent/main.py:49).  Where it
\* answers first, that is lost with the answer: see the run api_ack.
ExitZeroRecorded ==
  \A j \in Job : exit[j] = 0 =>
    \E r \in ledger : r.job = j /\ r.status = "SUCCESS" /\ r.path = KeyOf[j]

\* With the local driver a successful run of such a job leaves neither of its
\* temporary files: the raw dump was unlinked, the compressed one became the
\* object.  It is all that keeps TEMP_DIR from filling, for cleanup is given
\* the wrong name.
LocalSuccessLeavesNothing ==
  \A j \in Job \ S3 : Private(j) /\ outcome[j].status = "SUCCESS" =>
    rawDir[TempOf[j]] = None /\ gzDir[TempOf[j]] = None

\* What the catalogue of backups promises whoever restores from it: the rows
\* of those jobs never come to name anything but the dump they were entered for.
Vault == [k \in Key |-> IF store[k] = None THEN None ELSE bytes[store[k]]]
Catalog == INSTANCE BackupCatalog
  WITH Job <- {j \in Job : Private(j)},
       vault <- Vault, catalog <- {r \in ledger : Private(r.job)}
ImplementsCatalog == Catalog!Spec
=============================================================================
