------------------------ MODULE BackupAgent_proofs ------------------------
(***************************************************************************)
(* Proofs about BackupAgent for any number of jobs, drivers and database   *)
(* types.  Types and exit codes hold in general.  The rest is about a job  *)
(* with private temporary names, whatever names the other jobs share: the  *)
(* files behind a name and behind a descriptor are those of jobs with that *)
(* name (KinStep), so that a step of another job changes nothing a private *)
(* one relies on (Foreign); a step of the job itself keeps what its own    *)
(* files, checksum and outcome say of each other (Own); and a row of the   *)
(* ledger speaks of a job that is gone (RecordingStep).  Where all jobs    *)
(* have private names, every verified object has its checksum.             *)
(***************************************************************************)
EXTENDS BackupAgent, TLAPS

Place == {"idle"} \cup Running \cup Ended

LEMMA Files == \A j \in Job : /\ <<j, "raw">> \in File
                            /\ <<j, "gz">> \in File
                            /\ <<j, "obj">> \in File
  BY DEF File

LEMMA OpenedFile ==
  ASSUME TypeOK, NEW j \in Job
  PROVE  Opened(rawDir, TempOf[j], <<j, "raw">>) \in File
  BY Files, NamesAssumption DEF TypeOK, Opened

\* Every step keeps the types (all of run_backup and what it calls).
LEMMA TypeStep ==
  ASSUME TypeOK, NEW j \in Job, Step(j) \/ Kill(j)
  PROVE  TypeOK'
<1> USE NamesAssumption, NoneAssumption, Files DEF TypeOK, Byte
<1>1. CASE Start(j)
  BY <1>1 DEF Start, Goto, files, Ended, Running
<1>2. CASE StartRaises(j)
  BY <1>2 DEF StartRaises, Raise, files, Goto, Ended, Running
<1>3. CASE OpenRaw(j)
  BY <1>3 DEF OpenRaw, Goto, Opened, Ended, Running
<1>4. CASE ToolMissing(j)
  <2>1. CASE /\ rawDir' = [rawDir EXCEPT ![TempOf[j]] = Opened(rawDir, TempOf[j], <<j, "raw">>)]
             /\ bytes' = [bytes EXCEPT ![Opened(rawDir, TempOf[j], <<j, "raw">>)] = {}]
    <3>1. Opened(rawDir, TempOf[j], <<j, "raw">>) \in File
      BY OpenedFile
    <3>2. rawDir' \in [Temp -> File \cup {None}] /\ bytes' \in [File -> SUBSET Byte]
      BY <2>1, <3>1
    <3> QED  BY <1>4, <3>2 DEF ToolMissing, Finish, Goto, Failed, Ended,
                Running
  <2>2. CASE UNCHANGED <<rawDir, bytes>>
    BY <1>4, <2>2 DEF ToolMissing, Finish, Goto, Failed, Ended, Running
  <2> QED  BY <1>4, <2>1, <2>2 DEF ToolMissing
<1>5. CASE Dump(j)
  BY <1>5 DEF Dump, Goto, Overwritten, Ended, Running
<1>6. CASE DumpNothing(j)
  BY <1>6 DEF DumpNothing, Goto, files, Ended, Running
<1>7. CASE DumpFails(j)
  BY <1>7 DEF DumpFails, Finish, Goto, Failed, Ended, Running
<1>8. CASE CheckEmpty(j)
  BY <1>8 DEF CheckEmpty, Finish, Held, files, Goto, Failed, Ended, Running
<1>9. CASE CheckRaw(j)
  BY <1>9 DEF CheckRaw, Goto, Held, files, Ended, Running
<1>10. CASE OpenGz(j)
  BY <1>10 DEF OpenGz, Goto, Opened, Ended, Running
<1>11. CASE OpenGzRaises(j)
  BY <1>11 DEF OpenGzRaises, Raise, files, Goto, Ended, Running
<1>12. CASE Copy(j)
  BY <1>12 DEF Copy, Goto, Overwritten, Ended, Running
<1>13. CASE CopyRaises(j)
  BY <1>13 DEF CopyRaises, Raise, Overwritten, Goto, Ended, Running
<1>14. CASE UnlinkRaw(j)
  BY <1>14 DEF UnlinkRaw, Goto, Ended, Running
<1>15. CASE ValidateFails(j)
  BY <1>15 DEF ValidateFails, Finish, Held, files, Goto, Failed, Ended, Running
<1>16. CASE Validate(j)
  BY <1>16 DEF Validate, Goto, Held, files, Ended, Running
<1>17. CASE Hash(j)
  BY <1>17 DEF Hash, Goto, files, Ended, Running, Digest
<1>18. CASE HashRaises(j)
  BY <1>18 DEF HashRaises, Raise, files, Goto, Ended, Running
<1>19. CASE UploadFails(j)
  BY <1>19 DEF UploadFails, Finish, files, Goto, Failed, Ended, Running
<1>20. CASE LocalUpload(j)
  BY <1>20 DEF LocalUpload, Goto, Ended, Running
<1>21. CASE LocalRehash(j)
  BY <1>21 DEF LocalRehash, Goto, files, Ended, Running
<1>22. CASE LocalRehashFails(j)
  BY <1>22 DEF LocalRehashFails, Finish, files, Goto, Failed, Ended, Running
<1>23. CASE S3Upload(j)
  <2>1. store' \in [Key -> File \cup {None}]
    BY <1>23 DEF S3Upload
  <2>2. bytes' \in [File -> SUBSET Byte]
    <3>1. gzDir[TempOf[j]] \in File
      BY <1>23 DEF S3Upload
    <3> QED  BY <1>23, <3>1 DEF S3Upload
  <2>3. CASE Goto(j, "upload", "verify") /\ UNCHANGED outcome
    BY <1>23, <2>1, <2>2, <2>3 DEF S3Upload, Goto, Ended, Running
  <2>4. CASE Finish(j, "upload", None)
    BY <1>23, <2>1, <2>2, <2>4 DEF S3Upload, Goto, Finish, Failed, Ended,
       Running
  <2> QED  BY <1>23, <2>3, <2>4 DEF S3Upload
<1>24. CASE Verify(j)
  BY <1>24 DEF Verify, Goto, files, Success, Failed, Ended, Running
<1>25. CASE VerifyRaises(j)
  BY <1>25 DEF VerifyRaises, Raise, files, Goto, Ended, Running
<1>26. CASE ReportAccepted(j)
  BY <1>26 DEF ReportAccepted, Goto, files, Row, Ended, Running, Digest
<1>27. CASE ReportLost(j)
  BY <1>27 DEF ReportLost, Goto, files, Ended, Running
<1>28. CASE ReportUnheard(j)
  BY <1>28 DEF ReportUnheard, Goto, files, Row, Ended, Running, Digest
<1>29. CASE Kill(j)
  <2>1. bytes' \in [File -> SUBSET Byte]
    <3>1. CASE UNCHANGED bytes
      BY <3>1
    <3>2. CASE pc[j] = "dump" /\ bytes' = [bytes EXCEPT ![rawFd[j]] = @ \cup {j, Cut}]
      BY <3>2
    <3>3. CASE /\ pc[j] = "copy"
               /\ bytes' = [bytes EXCEPT ![gzFd[j]] = @ \cup bytes[rawFd[j]] \cup {Cut}]
      BY <3>3
    <3> QED  BY <1>29, <3>1, <3>2, <3>3 DEF Kill
  <2>2. ledger' \subseteq [job : Job, status : {"SUCCESS", "FAILED"},
                           path : Key \cup {None}, checksum : Digest]
    <3>1. pc[j] = "report" => Row(j) \in [job : Job, status : {"SUCCESS", "FAILED"},
                                          path : Key \cup {None}, checksum : Digest]
      BY DEF Row, Digest
    <3> QED  BY <1>29, <3>1 DEF Kill
  <2> QED  BY <1>29, <2>1, <2>2 DEF Kill, files, Running, Ended
<1> QED
  BY <1>1, <1>2, <1>3, <1>4, <1>5, <1>6, <1>7, <1>8, <1>9, <1>10, <1>11, <1>12,
     <1>13, <1>14, <1>15, <1>16, <1>17, <1>18, <1>19, <1>20, <1>21, <1>22,
     <1>23, <1>24, <1>25, <1>26, <1>27, <1>28, <1>29 DEF Step, DumpStep,
     UploadStep, ReportStep

LEMMA TypeInit == Init => TypeOK
  BY NamesAssumption, NoneAssumption DEF Init, TypeOK, Running, Ended,
     Digest, Undecided

LEMMA TypeNext == TypeOK /\ [Next]_vars => TypeOK'
<1>1. CASE Next
  BY <1>1, TypeStep DEF Next
<1>2. CASE UNCHANGED vars
  BY <1>2 DEF vars, TypeOK
<1> QED  BY <1>1, <1>2

\* The types are an invariant of the agents, whatever names they share: with
\* them, every way out of a dump or of a compression closes its files, and what
\* is reported has been decided.
THEOREM TypeCorrect == Spec => []TypeOK
<1> QED  BY TypeInit, TypeNext, PTL DEF Spec

-----------------------------------------------------------------------------
\* The files of the jobs that use the temporary names of this one.
KinFile(i, kind) == {<<k, kind>> : k \in {j \in Job : TempOf[j] = TempOf[i]}}

\* Names and descriptors lead to files of jobs with the same names.
Kin(i) ==
  /\ rawDir[TempOf[i]] \in {None} \cup KinFile(i, "raw")
  /\ gzDir[TempOf[i]] \in {None} \cup KinFile(i, "gz")
  /\ rawFd[i] \in {None} \cup KinFile(i, "raw")
  /\ gzFd[i] \in {None} \cup KinFile(i, "gz")

\* What is true of one job with private names at every step of its own.
Names(j) ==
  /\ rawDir[TempOf[j]] \in {None, <<j, "raw">>}
  /\ gzDir[TempOf[j]] \in {None, <<j, "gz">>}
  /\ store[KeyOf[j]] \in {None, <<j, "gz">>, <<j, "obj">>}
  /\ rawFd[j] \in {None, <<j, "raw">>}
  /\ gzFd[j] \in {None, <<j, "gz">>}

\* Up to here nothing but the whole dump can have been written.
Dumping == {"idle", "open", "dump", "check"}

Content(j) ==
  /\ pc[j] \in Dumping => bytes[<<j, "raw">>] \subseteq {j}
  /\ pc[j] \in Dumping \cup {"gzip", "copy"} => bytes[<<j, "gz">>] \subseteq {j}
  /\ pc[j] = "dump" => rawFd[j] = <<j, "raw">>
  /\ pc[j] \in {"gzip", "copy"} => bytes[<<j, "raw">>] = {j}
  /\ pc[j] = "copy" => rawFd[j] = <<j, "raw">> /\ gzFd[j] = <<j, "gz">>
  /\ pc[j] \in {"unlink", "validate", "hash", "upload"} =>
        bytes[<<j, "gz">>] = {j}
  /\ pc[j] \in {"upload", "rehash", "verify"} => checksum[j] = {j}

Stored(j) == store[KeyOf[j]] # None /\ bytes[store[KeyOf[j]]] = {j}

Result(j) ==
  /\ pc[j] \in {"rehash", "verify"} => Stored(j)
  /\ outcome[j].status = "SUCCESS" =>
        /\ pc[j] \in {"report", "exited", "killed"}
        /\ outcome[j].path = KeyOf[j]
        /\ checksum[j] = {j}
        /\ Stored(j)
  /\ pc[j] = "report" => outcome[j].status \in {"SUCCESS", "FAILED"}

\* Only a process that is gone has a row.
Gone == {"exited", "killed"}

Recording == \A r \in ledger : pc[r.job] \in Gone /\ r = Row(r.job)

JobInv(j) == Names(j) /\ Content(j) /\ Result(j)

\* Nothing JobInv says of a job depends on more than this.
Same(j) ==
  /\ pc'[j] = pc[j]
  /\ rawDir'[TempOf[j]] = rawDir[TempOf[j]]
  /\ gzDir'[TempOf[j]] = gzDir[TempOf[j]]
  /\ store'[KeyOf[j]] = store[KeyOf[j]]
  /\ \A kind \in {"raw", "gz", "obj"} : bytes'[<<j, kind>>] = bytes[<<j, kind>>]
  /\ rawFd'[j] = rawFd[j] /\ gzFd'[j] = gzFd[j]
  /\ checksum'[j] = checksum[j] /\ outcome'[j] = outcome[j]

\* Every step keeps names and descriptors among kin.
LEMMA KinStep ==
  ASSUME TypeOK, NEW i \in Job, NEW j \in Job, Kin(i), Kin(j), Step(j) \/ Kill(j)
  PROVE  Kin(i)'
<1> USE NamesAssumption, NoneAssumption DEF TypeOK, Kin
<1>a. /\ \A kind \in {"raw", "gz"} :
             /\ <<j, kind>> \in KinFile(j, kind)
             /\ TempOf[i] = TempOf[j] => <<j, kind>> \in KinFile(i, kind)
      /\ TempOf[i] \in Temp /\ TempOf[j] \in Temp
  BY DEF KinFile
<1>1. CASE Start(j)
  BY <1>1, <1>a DEF Start, Goto, files
<1>2. CASE StartRaises(j)
  BY <1>2, <1>a DEF StartRaises, Raise, files, Goto
<1>3. CASE OpenRaw(j)
  BY <1>3, <1>a DEF OpenRaw, Goto, Opened
<1>4. CASE ToolMissing(j)
  BY <1>4, <1>a DEF ToolMissing, Finish, Opened, Goto
<1>5. CASE Dump(j)
  BY <1>5, <1>a DEF Dump, Goto
<1>6. CASE DumpNothing(j)
  BY <1>6, <1>a DEF DumpNothing, Goto, files
<1>7. CASE DumpFails(j)
  BY <1>7, <1>a DEF DumpFails, Finish, Goto
<1>8. CASE CheckEmpty(j)
  BY <1>8, <1>a DEF CheckEmpty, Finish, files, Goto
<1>9. CASE CheckRaw(j)
  BY <1>9, <1>a DEF CheckRaw, Goto, files
<1>10. CASE OpenGz(j)
  BY <1>10, <1>a DEF OpenGz, Goto, Opened
<1>11. CASE OpenGzRaises(j)
  BY <1>11, <1>a DEF OpenGzRaises, Raise, files, Goto
<1>12. CASE Copy(j)
  BY <1>12, <1>a DEF Copy, Goto
<1>13. CASE CopyRaises(j)
  BY <1>13, <1>a DEF CopyRaises, Raise, Goto
<1>14. CASE UnlinkRaw(j)
  BY <1>14, <1>a DEF UnlinkRaw, Goto
<1>15. CASE ValidateFails(j)
  BY <1>15, <1>a DEF ValidateFails, Finish, files, Goto
<1>16. CASE Validate(j)
  BY <1>16, <1>a DEF Validate, Goto, files
<1>17. CASE Hash(j)
  BY <1>17, <1>a DEF Hash, Goto, files
<1>18. CASE HashRaises(j)
  BY <1>18, <1>a DEF HashRaises, Raise, files, Goto
<1>19. CASE UploadFails(j)
  BY <1>19, <1>a DEF UploadFails, Finish, files, Goto
<1>20. CASE LocalUpload(j)
  BY <1>20, <1>a DEF LocalUpload, Goto
<1>21. CASE LocalRehash(j)
  BY <1>21, <1>a DEF LocalRehash, Goto, files
<1>22. CASE LocalRehashFails(j)
  BY <1>22, <1>a DEF LocalRehashFails, Finish, files, Goto
<1>23. CASE S3Upload(j)
  BY <1>23, <1>a DEF S3Upload, Goto, Finish
<1>24. CASE Verify(j)
  BY <1>24, <1>a DEF Verify, Goto, files
<1>25. CASE VerifyRaises(j)
  BY <1>25, <1>a DEF VerifyRaises, Raise, files, Goto
<1>26. CASE ReportAccepted(j)
  BY <1>26, <1>a DEF ReportAccepted, Goto, files
<1>27. CASE ReportLost(j)
  BY <1>27, <1>a DEF ReportLost, Goto, files
<1>28. CASE ReportUnheard(j)
  BY <1>28, <1>a DEF ReportUnheard, Goto, files
<1>29. CASE Kill(j)
  BY <1>29, <1>a DEF Kill
<1> QED
  BY <1>1, <1>2, <1>3, <1>4, <1>5, <1>6, <1>7, <1>8, <1>9, <1>10, <1>11, <1>12, <1>13,
     <1>14, <1>15, <1>16, <1>17, <1>18, <1>19, <1>20, <1>21, <1>22, <1>23, <1>24, <1>25,
     <1>26, <1>27, <1>28, <1>29
     DEF Step, DumpStep, UploadStep, ReportStep

\* A step of another job changes nothing a job with private names relies on.
LEMMA Foreign ==
  ASSUME TypeOK, NEW i \in Job, Kin(i), NEW j \in Job, Private(j), i # j,
         Step(i) \/ Kill(i)
  PROVE  Same(j)
<1> USE DEF TypeOK, Same
<1>a. TempOf[i] # TempOf[j] /\ KeyOf[i] # KeyOf[j]
  BY NamesAssumption DEF Private
<1>b. \A k \in {"raw", "gz", "obj"} : \A l \in {"raw", "gz", "obj"} :
         <<j, l>> # <<i, k>> /\ <<j, l>> \notin KinFile(i, k)
  BY <1>a DEF KinFile
<1>d. \A l \in {"raw", "gz", "obj"} :
         /\ <<j, l>> # rawFd[i] /\ <<j, l>> # gzFd[i]
         /\ <<j, l>> # rawDir[TempOf[i]] /\ <<j, l>> # gzDir[TempOf[i]]
  <2>1. ASSUME NEW l \in {"raw", "gz", "obj"} PROVE <<j, l>> # None
    <3>1. <<j, l>> \in File
      BY DEF File
    <3> QED BY <3>1, NoneAssumption
  <2> HIDE DEF TypeOK
  <2>2. /\ rawFd[i] \in {None} \cup KinFile(i, "raw")
        /\ gzFd[i] \in {None} \cup KinFile(i, "gz")
        /\ rawDir[TempOf[i]] \in {None} \cup KinFile(i, "raw")
        /\ gzDir[TempOf[i]] \in {None} \cup KinFile(i, "gz")
    BY DEF Kin
  <2> QED BY <1>b, <2>1, <2>2
<1>c. TempOf[i] \in Temp /\ TempOf[j] \in Temp /\ KeyOf[i] \in Key /\ KeyOf[j] \in Key
  BY NamesAssumption
<1>1. CASE Start(i)
  BY <1>1, <1>a, <1>c DEF Start, Goto, files
<1>2. CASE StartRaises(i)
  BY <1>2, <1>a, <1>c DEF StartRaises, Raise, files, Goto
<1>3. CASE OpenRaw(i)
  BY <1>3, <1>a, <1>c, <1>b, <1>d, Files DEF OpenRaw, Goto, Opened
<1>4. CASE ToolMissing(i)
  BY <1>4, <1>a, <1>c, <1>b, <1>d, Files DEF ToolMissing, Finish,
     Opened, Goto
<1>5. CASE Dump(i)
  BY <1>5, <1>a, <1>c, <1>b, <1>d, Files DEF Dump, Goto,
     Overwritten
<1>6. CASE DumpNothing(i)
  BY <1>6, <1>a, <1>c DEF DumpNothing, Goto, files
<1>7. CASE DumpFails(i)
  BY <1>7, <1>a, <1>c, <1>b, <1>d, Files DEF DumpFails, Finish,
     Goto
<1>8. CASE CheckEmpty(i)
  BY <1>8, <1>a, <1>c DEF CheckEmpty, Finish, files, Goto
<1>9. CASE CheckRaw(i)
  BY <1>9, <1>a, <1>c DEF CheckRaw, Goto, files
<1>10. CASE OpenGz(i)
  BY <1>10, <1>a, <1>c, <1>b, <1>d, Files DEF OpenGz, Goto, Opened
<1>11. CASE OpenGzRaises(i)
  BY <1>11, <1>a, <1>c DEF OpenGzRaises, Raise, files, Goto
<1>12. CASE Copy(i)
  BY <1>12, <1>a, <1>c, <1>b, <1>d, Files DEF Copy, Goto,
     Overwritten
<1>13. CASE CopyRaises(i)
  BY <1>13, <1>a, <1>c, <1>b, <1>d, Files DEF CopyRaises, Raise,
     Overwritten, Goto
<1>14. CASE UnlinkRaw(i)
  BY <1>14, <1>a, <1>c DEF UnlinkRaw, Goto
<1>15. CASE ValidateFails(i)
  BY <1>15, <1>a, <1>c DEF ValidateFails, Finish, files, Goto
<1>16. CASE Validate(i)
  BY <1>16, <1>a, <1>c DEF Validate, Goto, files
<1>17. CASE Hash(i)
  BY <1>17, <1>a, <1>c DEF Hash, Goto, files
<1>18. CASE HashRaises(i)
  BY <1>18, <1>a, <1>c DEF HashRaises, Raise, files, Goto
<1>19. CASE UploadFails(i)
  BY <1>19, <1>a, <1>c DEF UploadFails, Finish, files, Goto
<1>20. CASE LocalUpload(i)
  BY <1>20, <1>a, <1>c DEF LocalUpload, Goto
<1>21. CASE LocalRehash(i)
  BY <1>21, <1>a, <1>c DEF LocalRehash, Goto, files
<1>22. CASE LocalRehashFails(i)
  BY <1>22, <1>a, <1>c DEF LocalRehashFails, Finish, files, Goto
<1>23. CASE S3Upload(i)
  BY <1>23, <1>a, <1>c, <1>b, <1>d, Files DEF S3Upload, Goto,
     Finish
<1>24. CASE Verify(i)
  BY <1>24, <1>a, <1>c DEF Verify, Goto, files
<1>25. CASE VerifyRaises(i)
  BY <1>25, <1>a, <1>c DEF VerifyRaises, Raise, files, Goto
<1>26. CASE ReportAccepted(i)
  BY <1>26, <1>a, <1>c DEF ReportAccepted, Goto, files
<1>27. CASE ReportLost(i)
  BY <1>27, <1>a, <1>c DEF ReportLost, Goto, files
<1>28. CASE ReportUnheard(i)
  BY <1>28, <1>a, <1>c DEF ReportUnheard, Goto, files
<1>29. CASE Kill(i)
  <2>1. \A k \in {"raw", "gz", "obj"} : bytes'[<<j, k>>] = bytes[<<j, k>>]
    <3>1. CASE UNCHANGED bytes
      BY <3>1
    <3>2. CASE pc[i] = "dump" /\ bytes' = [bytes EXCEPT ![rawFd[i]] = @ \cup {i, Cut}]
      BY <3>2, <1>d, Files
    <3>3. CASE /\ pc[i] = "copy"
               /\ bytes' = [bytes EXCEPT ![gzFd[i]] = @ \cup bytes[rawFd[i]] \cup {Cut}]
      BY <3>3, <1>d, Files
    <3> QED  BY <1>29, <3>1, <3>2, <3>3 DEF Kill
  <2> QED  BY <1>29, <1>a, <1>c, <2>1 DEF Kill
<1> QED
  BY <1>1, <1>2, <1>3, <1>4, <1>5, <1>6, <1>7, <1>8, <1>9, <1>10, <1>11, <1>12,
     <1>13, <1>14, <1>15, <1>16, <1>17, <1>18, <1>19, <1>20, <1>21, <1>22,
     <1>23, <1>24, <1>25, <1>26, <1>27, <1>28, <1>29 DEF Step, DumpStep,
     UploadStep, ReportStep

\* What an untouched job was, it still is.
LEMMA SameJobInv ==
  ASSUME NEW j \in Job, JobInv(j), Same(j)
  PROVE  JobInv(j)'
  BY DEF JobInv, Same, Names, Content, Result, Stored

\* Writing the whole of a job's bytes over what is only the job's.
LEMMA OverwrittenOwn ==
  ASSUME NEW j, NEW f, bytes[f] \subseteq {j}, NEW b \in Overwritten(f, {j})
  PROVE  b = {j}
  BY DEF Overwritten

\* A step of a job keeps what is true of the job.
LEMMA Own ==
  ASSUME TypeOK, NEW j \in Job, JobInv(j), Step(j) \/ Kill(j)
  PROVE  JobInv(j)'
<1> USE NamesAssumption, NoneAssumption, Files DEF TypeOK, Dumping
<1>a. /\ <<j, "raw">> # <<j, "gz">> /\ <<j, "obj">> # <<j, "gz">> /\ <<j, "raw">> # <<j, "obj">>
  OBVIOUS
<1>b. Names(j) /\ Content(j) /\ Result(j)
  BY DEF JobInv
<1>1. CASE Start(j)
  BY <1>1, <1>a, <1>b DEF Start, Goto, files, JobInv, Names, Content, Result,
     Stored
<1>2. CASE StartRaises(j)
  <2>1. Names(j)'
    BY <1>2, <1>b DEF StartRaises, Raise, files, Goto, Names, Content
  <2>2. Content(j)'
    BY <1>2, <1>a, <1>b DEF StartRaises, Raise, files, Goto, Names, Content
  <2>3. Result(j)'
    BY <1>2, <1>a, <1>b DEF StartRaises, Raise, files, Goto, Names, Content,
       Result, Stored
  <2> QED  BY <2>1, <2>2, <2>3 DEF JobInv
<1>3. CASE OpenRaw(j)
  BY <1>3, <1>a, <1>b DEF OpenRaw, Goto, Opened, JobInv, Names, Content,
     Result, Stored
<1>4. CASE ToolMissing(j)
  BY <1>4, <1>a, <1>b DEF ToolMissing, Finish, Opened, Goto, Failed, JobInv,
     Names, Content, Result, Stored
<1>5. CASE Dump(j)
  <2>1. Names(j)'
    BY <1>5, <1>b DEF Dump, Goto, Overwritten, Names, Content
  <2>2. Content(j)'
    <3>1. rawFd[j] = <<j, "raw">> /\ bytes[<<j, "raw">>] \subseteq {j}
      BY <1>5, <1>b DEF Dump, Goto, Content
    <3>2. bytes'[<<j, "raw">>] = {j} /\ bytes'[<<j, "gz">>] = bytes[<<j, "gz">>]
      BY <1>5, <1>a, <3>1, OverwrittenOwn DEF Dump
    <3> QED  BY <1>5, <1>b, <3>2 DEF Dump, Goto, Content
  <2>3. Result(j)'
    BY <1>5, <1>a, <1>b DEF Dump, Goto, Overwritten, Names, Content, Result,
       Stored
  <2> QED  BY <2>1, <2>2, <2>3 DEF JobInv
<1>6. CASE DumpNothing(j)
  BY <1>6, <1>a, <1>b DEF DumpNothing, Goto, files, JobInv, Names, Content,
     Result, Stored
<1>7. CASE DumpFails(j)
  <2>1. Names(j)'
    BY <1>7, <1>b DEF DumpFails, Finish, Goto, Failed, Names, Content
  <2>2. Content(j)'
    BY <1>7, <1>b DEF DumpFails, Finish, Goto, Content
  <2>3. Result(j)'
    BY <1>7, <1>a, <1>b DEF DumpFails, Finish, Goto, Failed, Names, Content,
       Result, Stored
  <2> QED  BY <2>1, <2>2, <2>3 DEF JobInv
<1>8. CASE CheckEmpty(j)
  BY <1>8, <1>a, <1>b DEF CheckEmpty, Finish, Held, files, Goto, Failed,
     JobInv, Names, Content, Result, Stored
<1>9. CASE CheckRaw(j)
  <2>1. Names(j)'
    BY <1>9, <1>b DEF CheckRaw, Goto, Held, files, Names, Content
  <2>2. Content(j)'
    <3>1. bytes[<<j, "raw">>] = {j}
      <4>1. rawDir[TempOf[j]] = <<j, "raw">>
        BY <1>9, <1>b DEF CheckRaw, Held, Names
      <4>2. bytes[<<j, "raw">>] # {}
        BY <1>9, <4>1, NoneAssumption, Files DEF CheckRaw, Held
      <4>3. bytes[<<j, "raw">>] \subseteq {j}
        BY <1>9, <1>b DEF CheckRaw, Goto, Content
      <4> HIDE DEF TypeOK
      <4> QED  BY <4>2, <4>3
    <3> QED  BY <1>9, <1>b, <3>1 DEF CheckRaw, Goto, files, Content
  <2>3. Result(j)'
    BY <1>9, <1>a, <1>b DEF CheckRaw, Goto, Held, files, Names, Content,
       Result, Stored
  <2> QED  BY <2>1, <2>2, <2>3 DEF JobInv
<1>10. CASE OpenGz(j)
  BY <1>10, <1>a, <1>b DEF OpenGz, Goto, Opened, JobInv, Names, Content,
     Result, Stored
<1>11. CASE OpenGzRaises(j)
  <2>1. Names(j)'
    BY <1>11, <1>b DEF OpenGzRaises, Raise, files, Goto, Names, Content
  <2>2. Content(j)'
    BY <1>11, <1>a, <1>b DEF OpenGzRaises, Raise, files, Goto, Names, Content
  <2>3. Result(j)'
    BY <1>11, <1>a, <1>b DEF OpenGzRaises, Raise, files, Goto, Names, Content,
       Result, Stored
  <2> QED  BY <2>1, <2>2, <2>3 DEF JobInv
<1>12. CASE Copy(j)
  <2>1. Names(j)'
    BY <1>12, <1>b DEF Copy, Goto, Overwritten, Names, Content
  <2>2. Content(j)'
    <3>1. /\ gzFd[j] = <<j, "gz">> /\ bytes[<<j, "gz">>] \subseteq {j}
          /\ rawFd[j] = <<j, "raw">> /\ bytes[<<j, "raw">>] = {j}
      BY <1>12, <1>b DEF Copy, Goto, Content
    <3>2. bytes'[<<j, "gz">>] = {j} /\ bytes'[<<j, "raw">>] = bytes[<<j, "raw">>]
      BY <1>12, <1>a, <3>1, OverwrittenOwn DEF Copy
    <3> QED  BY <1>12, <1>b, <3>1, <3>2 DEF Copy, Goto, Content
  <2>3. Result(j)'
    BY <1>12, <1>a, <1>b DEF Copy, Goto, Overwritten, Names, Content, Result,
       Stored
  <2> QED  BY <2>1, <2>2, <2>3 DEF JobInv
<1>13. CASE CopyRaises(j)
  <2>1. Names(j)'
    BY <1>13, <1>b DEF CopyRaises, Raise, Overwritten, Goto, Names, Content
  <2>2. Content(j)'
    BY <1>13, <1>b DEF CopyRaises, Raise, Goto, Content
  <2>3. Result(j)'
    BY <1>13, <1>a, <1>b DEF CopyRaises, Raise, Overwritten, Goto, Names,
       Content, Result, Stored
  <2> QED  BY <2>1, <2>2, <2>3 DEF JobInv
<1>14. CASE UnlinkRaw(j)
  BY <1>14, <1>a, <1>b DEF UnlinkRaw, Goto, JobInv, Names, Content, Result,
     Stored
<1>15. CASE ValidateFails(j)
  BY <1>15, <1>a, <1>b DEF ValidateFails, Finish, Held, files, Goto, Failed,
     JobInv, Names, Content, Result, Stored
<1>16. CASE Validate(j)
  BY <1>16, <1>a, <1>b DEF Validate, Goto, Held, files, JobInv, Names, Content,
     Result, Stored
<1>17. CASE Hash(j)
  BY <1>17, <1>a, <1>b DEF Hash, Goto, files, JobInv, Names, Content, Result,
     Stored
<1>18. CASE HashRaises(j)
  <2>1. Names(j)'
    BY <1>18, <1>b DEF HashRaises, Raise, files, Goto, Names, Content
  <2>2. Content(j)'
    BY <1>18, <1>a, <1>b DEF HashRaises, Raise, files, Goto, Names, Content
  <2>3. Result(j)'
    BY <1>18, <1>a, <1>b DEF HashRaises, Raise, files, Goto, Names, Content,
       Result, Stored
  <2> QED  BY <2>1, <2>2, <2>3 DEF JobInv
<1>19. CASE UploadFails(j)
  BY <1>19, <1>a, <1>b DEF UploadFails, Finish, files, Goto, Failed, JobInv,
     Names, Content, Result, Stored
<1>20. CASE LocalUpload(j)
  BY <1>20, <1>a, <1>b DEF LocalUpload, Goto, JobInv, Names, Content, Result,
     Stored
<1>21. CASE LocalRehash(j)
  BY <1>21, <1>a, <1>b DEF LocalRehash, Goto, files, JobInv, Names, Content,
     Result, Stored
<1>22. CASE LocalRehashFails(j)
  BY <1>22, <1>a, <1>b DEF LocalRehashFails, Finish, files, Goto, Failed,
     JobInv, Names, Content, Result, Stored
<1>23. CASE S3Upload(j)
  <2>1. Names(j)'
    BY <1>23, <1>b DEF S3Upload, Goto, Finish, Failed, Names, Content
  <2>2. Content(j)'
    BY <1>23, <1>a, <1>b DEF S3Upload, Goto, Finish, Failed, Names, Content
  <2>3. Result(j)'
    <3>1. gzDir[TempOf[j]] = <<j, "gz">> /\ bytes[<<j, "gz">>] = {j} /\ pc[j] = "upload"
      BY <1>23, <1>b DEF S3Upload, Goto, Finish, Failed, Names, Content
    <3>2. store'[KeyOf[j]] = <<j, "obj">> /\ bytes'[<<j, "obj">>] = {j}
      BY <1>23, <3>1 DEF S3Upload
    <3>3. <<j, "obj">> # None
      BY Files, NoneAssumption
    <3>4. Stored(j)'
      BY <3>2, <3>3 DEF Stored
    <3> QED  BY <1>23, <1>b, <3>1, <3>4 DEF S3Upload, Goto, Finish, Failed,
                Result
  <2> QED  BY <2>1, <2>2, <2>3 DEF JobInv
<1>24. CASE Verify(j)
  BY <1>24, <1>a, <1>b DEF Verify, Goto, files, Success, Failed, JobInv, Names,
     Content, Result, Stored
<1>25. CASE VerifyRaises(j)
  <2>1. Names(j)'
    BY <1>25, <1>b DEF VerifyRaises, Raise, files, Goto, Names, Content
  <2>2. Content(j)'
    BY <1>25, <1>a, <1>b DEF VerifyRaises, Raise, files, Goto, Names, Content
  <2>3. Result(j)'
    BY <1>25, <1>a, <1>b DEF VerifyRaises, Raise, files, Goto, Names, Content,
       Result, Stored
  <2> QED  BY <2>1, <2>2, <2>3 DEF JobInv
<1>26. CASE ReportAccepted(j)
  BY <1>26, <1>a, <1>b DEF ReportAccepted, Goto, files, Row, JobInv, Names,
     Content, Result, Stored
<1>27. CASE ReportLost(j)
  BY <1>27, <1>a, <1>b DEF ReportLost, Goto, files, JobInv, Names, Content,
     Result, Stored
<1>28. CASE ReportUnheard(j)
  BY <1>28, <1>a, <1>b DEF ReportUnheard, Goto, files, Row, JobInv, Names,
     Content, Result, Stored
<1>29. CASE Kill(j)
  BY <1>29, <1>a, <1>b DEF Kill, files, Running, JobInv, Names, Content,
     Result, Stored
<1> QED
  BY <1>1, <1>2, <1>3, <1>4, <1>5, <1>6, <1>7, <1>8, <1>9, <1>10, <1>11, <1>12,
     <1>13, <1>14, <1>15, <1>16, <1>17, <1>18, <1>19, <1>20, <1>21, <1>22,
     <1>23, <1>24, <1>25, <1>26, <1>27, <1>28, <1>29 DEF Step, DumpStep,
     UploadStep, ReportStep

-----------------------------------------------------------------------------
\* The temporary files a local job has no more.
Clean(j) ==
  /\ pc[j] \in {"validate", "hash", "upload", "rehash", "verify"} => rawDir[TempOf[j]] =
     None
  /\ pc[j] \in {"rehash", "verify"} => gzDir[TempOf[j]] = None
  /\ outcome[j].status = "SUCCESS" =>
       /\ pc[j] \in {"report", "exited", "killed"}
       /\ rawDir[TempOf[j]] = None /\ gzDir[TempOf[j]] = None

\* A step of such a job keeps its directory clean of them.
LEMMA CleanStep ==
  ASSUME TypeOK, NEW j \in Job \ S3, Clean(j), Step(j) \/ Kill(j)
  PROVE  Clean(j)'
<1> USE NamesAssumption, NoneAssumption DEF TypeOK, Clean
<1>1. CASE Start(j)
  BY <1>1 DEF Start, Goto, files
<1>2. CASE StartRaises(j)
  BY <1>2 DEF StartRaises, Raise, files, Goto
<1>3. CASE OpenRaw(j)
  BY <1>3 DEF OpenRaw, Goto
<1>4. CASE ToolMissing(j)
  BY <1>4 DEF ToolMissing, Finish, Goto, Failed
<1>5. CASE Dump(j)
  BY <1>5 DEF Dump, Goto
<1>6. CASE DumpNothing(j)
  BY <1>6 DEF DumpNothing, Goto, files
<1>7. CASE DumpFails(j)
  BY <1>7 DEF DumpFails, Finish, Goto, Failed
<1>8. CASE CheckEmpty(j)
  BY <1>8 DEF CheckEmpty, Finish, files, Goto, Failed
<1>9. CASE CheckRaw(j)
  BY <1>9 DEF CheckRaw, Goto, files
<1>10. CASE OpenGz(j)
  BY <1>10 DEF OpenGz, Goto
<1>11. CASE OpenGzRaises(j)
  BY <1>11 DEF OpenGzRaises, Raise, files, Goto
<1>12. CASE Copy(j)
  BY <1>12 DEF Copy, Goto
<1>13. CASE CopyRaises(j)
  BY <1>13 DEF CopyRaises, Raise, Goto
<1>14. CASE UnlinkRaw(j)
  BY <1>14 DEF UnlinkRaw, Goto
<1>15. CASE ValidateFails(j)
  BY <1>15 DEF ValidateFails, Finish, files, Goto, Failed
<1>16. CASE Validate(j)
  BY <1>16 DEF Validate, Goto, files
<1>17. CASE Hash(j)
  BY <1>17 DEF Hash, Goto, files
<1>18. CASE HashRaises(j)
  BY <1>18 DEF HashRaises, Raise, files, Goto
<1>19. CASE UploadFails(j)
  BY <1>19 DEF UploadFails, Finish, files, Goto, Failed
<1>20. CASE LocalUpload(j)
  BY <1>20 DEF LocalUpload, Goto
<1>21. CASE LocalRehash(j)
  BY <1>21 DEF LocalRehash, Goto, files
<1>22. CASE LocalRehashFails(j)
  BY <1>22 DEF LocalRehashFails, Finish, files, Goto, Failed
<1>23. CASE S3Upload(j)
  BY <1>23 DEF S3Upload, Goto, Finish, Failed
<1>24. CASE Verify(j)
  BY <1>24 DEF Verify, Goto, files, Failed, Success
<1>25. CASE VerifyRaises(j)
  BY <1>25 DEF VerifyRaises, Raise, files, Goto
<1>26. CASE ReportAccepted(j)
  BY <1>26 DEF ReportAccepted, Goto, files
<1>27. CASE ReportLost(j)
  BY <1>27 DEF ReportLost, Goto, files
<1>28. CASE ReportUnheard(j)
  BY <1>28 DEF ReportUnheard, Goto, files
<1>29. CASE Kill(j)
  BY <1>29 DEF Kill, Running
<1> QED
  BY <1>1, <1>2, <1>3, <1>4, <1>5, <1>6, <1>7, <1>8, <1>9, <1>10, <1>11, <1>12, <1>13,
     <1>14, <1>15, <1>16, <1>17, <1>18, <1>19, <1>20, <1>21, <1>22, <1>23, <1>24, <1>25,
     <1>26, <1>27, <1>28, <1>29
     DEF Step, DumpStep, UploadStep, ReportStep

\* The inductive invariant.  A row stays true because its job is gone, takes
\* no further step, and no other job touches its files.
IndInv ==
  /\ TypeOK
  /\ \A j \in Job : Kin(j)
  /\ \A j \in Job : Private(j) => JobInv(j) /\ (j \notin S3 => Clean(j))
  /\ Recording

\* Only a report leaves a row, heard, unheard or with its sender killed, and
\* then the files and the outcome stay as they are.
RecordStep(j) ==
  /\ pc[j] = "report" /\ \E place \in Gone : pc' = [pc EXCEPT ![j] = place]
  /\ ledger' = ledger \cup {Row(j)}
  /\ UNCHANGED <<files, outcome, checksum>>

LEMMA LedgerStep ==
  ASSUME TypeOK, NEW j \in Job, Step(j) \/ Kill(j)
  PROVE  /\ pc[j] \notin Gone
         /\ ledger' = ledger \/ RecordStep(j)
         /\ \A i \in Job \ {j} : pc'[i] = pc[i] /\ Row(i)' = Row(i)
<1> USE NoneAssumption DEF TypeOK, Row, Gone
<1>1. CASE Start(j)
  BY <1>1 DEF Start, Goto, files
<1>2. CASE StartRaises(j)
  BY <1>2 DEF StartRaises, Raise, files, Goto
<1>3. CASE OpenRaw(j)
  BY <1>3 DEF OpenRaw, Goto
<1>4. CASE ToolMissing(j)
  BY <1>4 DEF ToolMissing, Finish, Goto
<1>5. CASE Dump(j)
  BY <1>5 DEF Dump, Goto
<1>6. CASE DumpNothing(j)
  BY <1>6 DEF DumpNothing, Goto, files
<1>7. CASE DumpFails(j)
  BY <1>7 DEF DumpFails, Finish, Goto
<1>8. CASE CheckEmpty(j)
  BY <1>8 DEF CheckEmpty, Finish, files, Goto
<1>9. CASE CheckRaw(j)
  BY <1>9 DEF CheckRaw, Goto, files
<1>10. CASE OpenGz(j)
  BY <1>10 DEF OpenGz, Goto
<1>11. CASE OpenGzRaises(j)
  BY <1>11 DEF OpenGzRaises, Raise, files, Goto
<1>12. CASE Copy(j)
  BY <1>12 DEF Copy, Goto
<1>13. CASE CopyRaises(j)
  BY <1>13 DEF CopyRaises, Raise, Goto
<1>14. CASE UnlinkRaw(j)
  BY <1>14 DEF UnlinkRaw, Goto
<1>15. CASE ValidateFails(j)
  BY <1>15 DEF ValidateFails, Finish, files, Goto
<1>16. CASE Validate(j)
  BY <1>16 DEF Validate, Goto, files
<1>17. CASE Hash(j)
  BY <1>17 DEF Hash, Goto, files
<1>18. CASE HashRaises(j)
  BY <1>18 DEF HashRaises, Raise, files, Goto
<1>19. CASE UploadFails(j)
  BY <1>19 DEF UploadFails, Finish, files, Goto
<1>20. CASE LocalUpload(j)
  BY <1>20 DEF LocalUpload, Goto
<1>21. CASE LocalRehash(j)
  BY <1>21 DEF LocalRehash, Goto, files
<1>22. CASE LocalRehashFails(j)
  BY <1>22 DEF LocalRehashFails, Finish, files, Goto
<1>23. CASE S3Upload(j)
  BY <1>23 DEF S3Upload, Goto, Finish
<1>24. CASE Verify(j)
  BY <1>24 DEF Verify, Goto, files
<1>25. CASE VerifyRaises(j)
  BY <1>25 DEF VerifyRaises, Raise, files, Goto
<1>26. CASE ReportAccepted(j)
  BY <1>26 DEF RecordStep, ReportAccepted, Goto, files
<1>27. CASE ReportLost(j)
  BY <1>27 DEF ReportLost, Goto, files
<1>28. CASE ReportUnheard(j)
  BY <1>28 DEF RecordStep, ReportUnheard, Goto, files
<1>29. CASE Kill(j)
  BY <1>29 DEF RecordStep, Kill, Running, files
<1> QED
  BY <1>1, <1>2, <1>3, <1>4, <1>5, <1>6, <1>7, <1>8, <1>9, <1>10, <1>11, <1>12, <1>13,
     <1>14, <1>15, <1>16, <1>17, <1>18, <1>19, <1>20, <1>21, <1>22, <1>23, <1>24, <1>25,
     <1>26, <1>27, <1>28, <1>29
     DEF Step, DumpStep, UploadStep, ReportStep

LEMMA RecordingStep ==
  ASSUME IndInv, NEW j \in Job, Step(j) \/ Kill(j)
  PROVE  Recording'
<1>1. pc[j] \notin Gone /\ (ledger' = ledger \/ RecordStep(j))
  BY LedgerStep DEF IndInv
<1>2. \A i \in Job : i # j => Row(i)' = Row(i) /\ pc'[i] = pc[i]
  BY LedgerStep DEF IndInv
<1>3. \A r \in ledger : r.job \in Job /\ r.job # j /\ pc[r.job] \in Gone /\ r = Row(r.job)
  BY <1>1 DEF IndInv, TypeOK, Recording
<1>4. \A r \in ledger : pc'[r.job] \in Gone /\ r = Row(r.job)'
  BY <1>2, <1>3
<1>5. RecordStep(j) => pc'[j] \in Gone /\ Row(j)' = Row(j) /\ Row(j).job = j
  BY DEF RecordStep, Row, IndInv, TypeOK
<1> QED  BY <1>1, <1>4, <1>5 DEF RecordStep, Recording

LEMMA IndInvInit == Init => IndInv
<1> SUFFICES ASSUME Init PROVE IndInv
  OBVIOUS
<1>1. TypeOK
  BY TypeInit
<1>2. \A j \in Job : JobInv(j)
  BY NamesAssumption, NoneAssumption, Files
     DEF Init, JobInv, Names, Content, Result, Undecided
<1>3. \A j \in Job : Kin(j) /\ Clean(j)
  BY NamesAssumption, NoneAssumption DEF Init, Kin, Clean, Undecided
<1>4. Recording
  BY NoneAssumption DEF Init, Recording
<1> QED  BY <1>1, <1>2, <1>3, <1>4 DEF IndInv

LEMMA IndInvStep == IndInv /\ [Next]_vars => IndInv'
<1> SUFFICES ASSUME IndInv, [Next]_vars PROVE IndInv'
  OBVIOUS
<1>1. CASE Next
  <2>1. PICK j \in Job : Step(j) \/ Kill(j)
    BY <1>1 DEF Next
  <2>2. TypeOK'
    BY <2>1, TypeStep DEF IndInv
  <2>3. \A i \in Job : Kin(i)'
    BY <2>1, KinStep DEF IndInv
  <2>4. Private(j) => JobInv(j)' /\ (j \notin S3 => Clean(j)')
    BY <2>1, Own, CleanStep DEF IndInv
  <2>5. ASSUME NEW i \in Job, i # j, Private(i)
        PROVE  JobInv(i)' /\ (i \notin S3 => Clean(i)')
    <3>1. Same(i) /\ JobInv(i) /\ (i \notin S3 => Clean(i))
      BY <2>1, <2>5, Foreign DEF IndInv
    <3>2. JobInv(i)'
      BY <3>1, SameJobInv
    <3> QED BY <3>1, <3>2 DEF Same, Clean
  <2>6. Recording'
    BY <2>1, RecordingStep
  <2>7. \A i \in Job : Private(i)' <=> Private(i)
    BY DEF Private
  <2> QED  BY <2>2, <2>3, <2>4, <2>5, <2>6, <2>7 DEF IndInv
<1>2. CASE UNCHANGED vars
  <2>1. \A j \in Job : Same(j) /\ (Private(j)' <=> Private(j))
    BY <1>2 DEF vars, Same, Private
  <2>2. TypeOK' /\ Recording' /\ \A j \in Job : Kin(j)'
    BY <1>2 DEF vars, IndInv, TypeOK, Recording, Row, Kin, KinFile
  <2>3. ASSUME NEW j \in Job, Private(j) PROVE JobInv(j)' /\ (j \notin S3 => Clean(j)')
    <3>1. JobInv(j) /\ (j \notin S3 => Clean(j)) /\ Same(j)
      BY <2>1, <2>3 DEF IndInv
    <3>2. JobInv(j)'
      BY <3>1, SameJobInv
    <3> QED BY <3>1, <3>2 DEF Same, Clean
  <2> QED BY <2>1, <2>2, <2>3 DEF IndInv
<1> QED  BY <1>1, <1>2

LEMMA IndInvImplies == IndInv => SuccessIntact /\ LocalSuccessLeavesNothing
<1> SUFFICES ASSUME IndInv PROVE SuccessIntact /\ LocalSuccessLeavesNothing
  OBVIOUS
<1>1. ASSUME NEW r \in ledger, r.status = "SUCCESS", Private(r.job)
      PROVE  Holds(r) /\ r.checksum = {r.job}
  <2>1. r.job \in Job /\ r = Row(r.job)
    BY DEF IndInv, TypeOK, Recording
  <2>2. /\ outcome[r.job].status = "SUCCESS" /\ r.path = outcome[r.job].path
        /\ r.checksum = checksum[r.job]
    <3>1. /\ r.status = Row(r.job).status /\ r.path = Row(r.job).path
          /\ r.checksum = Row(r.job).checksum
      BY <2>1
    <3> QED  BY <1>1, <3>1 DEF Row
  <2>3. /\ outcome[r.job].path = KeyOf[r.job] /\ checksum[r.job] = {r.job}
        /\ store[KeyOf[r.job]] # None /\ bytes[store[KeyOf[r.job]]] = {r.job}
    BY <1>1, <2>1, <2>2 DEF IndInv, JobInv, Result, Stored
  <2> QED  BY <2>2, <2>3 DEF Holds
<1>2. LocalSuccessLeavesNothing
  BY DEF IndInv, Clean, LocalSuccessLeavesNothing
<1> QED  BY <1>1, <1>2 DEF SuccessIntact

\* A job whose temporary names no other uses never puts a SUCCESS on record
\* whose object is missing, damaged or another run's, whatever the jobs around
\* it share.
THEOREM SuccessIsIntact == Spec => []SuccessIntact
<1> QED  BY IndInvInit, IndInvStep, IndInvImplies, PTL DEF Spec

\* Nor does it leave a temporary file behind when it succeeded with the local
\* driver, which is the only run after which nothing has to be cleaned up.
THEOREM LocalSuccessIsClean == Spec => []LocalSuccessLeavesNothing
<1> QED  BY IndInvInit, IndInvStep, IndInvImplies, PTL DEF Spec

\* ChecksumHolds fails for one reason only, a temporary name that two jobs use:
\* where every job has one of its own, a SUCCESS row has the checksum of the
\* object it names, for good.
THEOREM PrivateNamesKeepChecksums ==
  ASSUME \A j \in Job : Private(j)
  PROVE  Spec => []ChecksumHolds
<1>1. TypeOK /\ SuccessIntact => ChecksumHolds
  BY DEF TypeOK, SuccessIntact, ChecksumHolds
<1> QED  BY <1>1, TypeCorrect, SuccessIsIntact, PTL

-----------------------------------------------------------------------------
\* Exit code 0 needs no private names: it depends on the job's own outcome.
OutcomeKept ==
  \A j \in Job : outcome[j].status = "SUCCESS" => outcome[j].path = KeyOf[j]

\* What one step does to the outcome, the exit code and the rows.
LEMMA OutcomeStep ==
  ASSUME TypeOK, NEW j \in Job, Step(j) \/ Kill(j)
  PROVE  /\ \A i \in Job : outcome'[i] # outcome[i] /\ outcome'[i].status = "SUCCESS"
                            => outcome'[i].path = KeyOf[i]
         /\ \/ exit' = exit
            \/ exit' = [exit EXCEPT ![j] = 1]
            \/ /\ exit' = [exit EXCEPT ![j] = 0]
               /\ outcome[j].status = "SUCCESS"
               /\ CommitFirst => Row(j) \in ledger'
         /\ ledger \subseteq ledger'
<1> USE NoneAssumption DEF TypeOK
<1>1. CASE Start(j)
  BY <1>1 DEF Start, Goto, files
<1>2. CASE StartRaises(j)
  BY <1>2 DEF StartRaises, Raise, Goto, files
<1>3. CASE OpenRaw(j)
  BY <1>3 DEF OpenRaw, Goto
<1>4. CASE ToolMissing(j)
  BY <1>4 DEF ToolMissing, Finish, Goto, Failed
<1>5. CASE Dump(j)
  BY <1>5 DEF Dump, Goto
<1>6. CASE DumpNothing(j)
  BY <1>6 DEF DumpNothing, Goto, files
<1>7. CASE DumpFails(j)
  BY <1>7 DEF DumpFails, Finish, Goto, Failed
<1>8. CASE CheckEmpty(j)
  BY <1>8 DEF CheckEmpty, Finish, Goto, Failed, files
<1>9. CASE CheckRaw(j)
  BY <1>9 DEF CheckRaw, Goto, files
<1>10. CASE OpenGz(j)
  BY <1>10 DEF OpenGz, Goto
<1>11. CASE OpenGzRaises(j)
  BY <1>11 DEF OpenGzRaises, Raise, Goto, files
<1>12. CASE Copy(j)
  BY <1>12 DEF Copy, Goto
<1>13. CASE CopyRaises(j)
  BY <1>13 DEF CopyRaises, Raise, Goto
<1>14. CASE UnlinkRaw(j)
  BY <1>14 DEF UnlinkRaw, Goto
<1>15. CASE ValidateFails(j)
  BY <1>15 DEF ValidateFails, Finish, Goto, Failed, files
<1>16. CASE Validate(j)
  BY <1>16 DEF Validate, Goto, files
<1>17. CASE Hash(j)
  BY <1>17 DEF Hash, Goto, files
<1>18. CASE HashRaises(j)
  BY <1>18 DEF HashRaises, Raise, Goto, files
<1>19. CASE UploadFails(j)
  BY <1>19 DEF UploadFails, Finish, Goto, Failed, files
<1>20. CASE LocalUpload(j)
  BY <1>20 DEF LocalUpload, Goto
<1>21. CASE LocalRehash(j)
  BY <1>21 DEF LocalRehash, Goto, files
<1>22. CASE LocalRehashFails(j)
  BY <1>22 DEF LocalRehashFails, Finish, Goto, Failed, files
<1>23. CASE S3Upload(j)
  BY <1>23 DEF S3Upload, Goto, Finish, Failed
<1>24. CASE Verify(j)
  BY <1>24 DEF Verify, Goto, Failed, Success, files
<1>25. CASE VerifyRaises(j)
  BY <1>25 DEF VerifyRaises, Raise, Goto, files
<1>26. CASE ReportAccepted(j)
  BY <1>26 DEF ReportAccepted, Goto, files
<1>27. CASE ReportLost(j)
  BY <1>27 DEF ReportLost, Goto, files
<1>28. CASE ReportUnheard(j)
  BY <1>28 DEF ReportUnheard, Goto, files
<1>29. CASE Kill(j)
  BY <1>29 DEF Kill
<1> QED
  BY <1>1, <1>2, <1>3, <1>4, <1>5, <1>6, <1>7, <1>8, <1>9, <1>10,
     <1>11, <1>12, <1>13, <1>14, <1>15, <1>16, <1>17, <1>18, <1>19, <1>20,
     <1>21, <1>22, <1>23, <1>24, <1>25, <1>26, <1>27, <1>28, <1>29
     DEF Step, DumpStep, UploadStep, ReportStep

LEMMA ExitStep ==
  ASSUME CommitFirst,
         TypeOK, OutcomeKept, ExitZeroRecorded, NEW j \in Job, Step(j) \/ Kill(j)
  PROVE  OutcomeKept' /\ ExitZeroRecorded'
<1>1. OutcomeKept'
  BY OutcomeStep DEF OutcomeKept, TypeOK
<1>2. ASSUME NEW i \in Job, exit'[i] = 0
      PROVE  \E r \in ledger' : r.job = i /\ r.status = "SUCCESS" /\ r.path = KeyOf[i]
  <2>1. CASE exit[i] = 0
    BY <2>1, OutcomeStep DEF ExitZeroRecorded
  <2>2. CASE exit[i] # 0
    <3>1. i = j /\ outcome[j].status = "SUCCESS" /\ Row(j) \in ledger'
      BY <1>2, <2>2, OutcomeStep DEF TypeOK
    <3>2. Row(j).job = j /\ Row(j).status = "SUCCESS" /\ Row(j).path = KeyOf[j]
      BY <3>1 DEF OutcomeKept, Row
    <3> QED  BY <3>1, <3>2
  <2> QED  BY <2>1, <2>2
<1> QED  BY <1>1, <1>2 DEF ExitZeroRecorded

\* Where the API commits before it answers, exit code 0 is only ever returned
\* for a success it has on record, whatever names the agents share
\* (agent/main.py:49).  The assumption is needed: FastAPI 0.118 and later answer
\* first, and then the commit may fail behind an exit code 0.
THEOREM ExitZeroIsRecorded ==
  ASSUME CommitFirst
  PROVE  Spec => []ExitZeroRecorded
<1>1. Init => OutcomeKept /\ ExitZeroRecorded
  BY NoneAssumption DEF Init, OutcomeKept, ExitZeroRecorded, Undecided
<1>2. TypeOK /\ OutcomeKept /\ ExitZeroRecorded /\ [Next]_vars
      => (OutcomeKept /\ ExitZeroRecorded)'
  <2>1. CASE Next
    BY <2>1, ExitStep DEF Next
  <2>2. CASE UNCHANGED vars
    BY <2>2 DEF vars, OutcomeKept, ExitZeroRecorded
  <2> QED  BY <2>1, <2>2
<1> QED  BY <1>1, <1>2, TypeInit, TypeNext, PTL DEF Spec

-----------------------------------------------------------------------------
\* The agents implement the catalogue.

\* The rows the catalogue has.
Promised == {r \in ledger : Private(r.job)}

LEMMA CatalogStep ==
  ASSUME IndInv, NEW j \in Job, Step(j) \/ Kill(j)
  PROVE  Catalog!Next
<1>1. /\ pc[j] \notin Gone
      /\ ledger' = ledger \/ RecordStep(j)
  BY LedgerStep DEF IndInv
<1>2. CASE Promised' = Promised /\ ~(Private(j) /\ RecordStep(j))
  <2>1. ASSUME NEW k \in Key, Catalog!Catalogued(k)
        PROVE  store'[k] = store[k] /\ store[k] # None /\ bytes'[store[k]] = bytes[store[k]]
    <3>1. PICK r \in ledger : r.status = "SUCCESS" /\ r.path = k /\ Private(r.job)
      BY <2>1 DEF Catalog!Catalogued
    <3>2. r.job \in Job /\ r = Row(r.job) /\ pc[r.job] \in Gone
      BY DEF IndInv, TypeOK, Recording
    <3>3. outcome[r.job].status = "SUCCESS" /\ outcome[r.job].path = k
      BY <3>1, <3>2 DEF Row
    <3>4. KeyOf[r.job] = k /\ Stored(r.job) /\ Names(r.job)
      BY <3>1, <3>2, <3>3 DEF IndInv, JobInv, Result
    <3>5. Same(r.job)
      BY <1>1, <3>1, <3>2, Foreign DEF IndInv
    <3> QED  BY <3>4, <3>5 DEF Same, Stored, Names
  <2>2. \A k \in Key : Catalog!Catalogued(k) => Vault'[k] = Vault[k]
    BY <2>1 DEF Vault
  <2> QED  BY <1>2, <2>2 DEF Promised, Catalog!Next, Catalog!Change
<1>3. CASE Private(j) /\ RecordStep(j)
  <2>1. Vault' = Vault
    BY <1>3 DEF RecordStep, Vault, files
  <2>0. Promised' = Promised \cup {Row(j)} /\ j \in {i \in Job : Private(i)}
    BY <1>3 DEF RecordStep, Promised, Row, Private
  <2>2. ~Catalog!Recorded(j)
    BY <1>1 DEF Catalog!Recorded, IndInv, Recording
  <2>3. outcome[j].status \in {"SUCCESS", "FAILED"} /\ outcome[j].path \in Key \cup {None}
    BY <1>3 DEF RecordStep, IndInv, JobInv, Result, TypeOK
  <2>4. CASE outcome[j].status = "SUCCESS"
    <3>1. /\ KeyOf[j] \in Key /\ Vault[KeyOf[j]] = {j}
          /\ Row(j) = Catalog!Entry(j, KeyOf[j], {j}, "SUCCESS")
      BY <1>3, <2>4, NamesAssumption DEF IndInv, JobInv, Result, Stored, Vault, Row,
         Catalog!Entry
    <3>2. Catalog!EnterSuccess(j)
      BY <2>0, <2>1, <2>2, <3>1 DEF Promised, Catalog!EnterSuccess
    <3> QED  BY <2>0, <3>2 DEF Catalog!Next
  <2>5. CASE outcome[j].status = "FAILED"
    <3>1. Row(j) = Catalog!Entry(j, outcome[j].path, None, "FAILED")
      BY <2>5 DEF Row, Catalog!Entry
    <3>2. Catalog!EnterFailure(j)
      BY <2>0, <2>1, <2>2, <2>3, <3>1 DEF Promised, Catalog!EnterFailure
    <3> QED  BY <2>0, <3>2 DEF Catalog!Next
  <2> QED  BY <2>3, <2>4, <2>5
<1>4. RecordStep(j) /\ ~Private(j) => Promised' = Promised
  BY DEF RecordStep, Promised, Row, Private
<1>5. ledger' = ledger => Promised' = Promised
  BY DEF Promised, Private
<1> QED  BY <1>1, <1>2, <1>3, <1>4, <1>5

\* The agents, their files and the table implement the catalogue: what a job
\* with private names has on record as a success is never lost or altered by a
\* later step of any agent.
THEOREM AgentsImplementCatalog == Spec => ImplementsCatalog
<1>1. Init => Catalog!Init
  BY DEF Init, Catalog!Init, Vault
<1>2. IndInv /\ [Next]_vars => [Catalog!Next]_(Catalog!vars)
  <2>1. CASE Next
    BY <2>1, CatalogStep DEF Next
  <2>2. CASE UNCHANGED vars
    BY <2>2 DEF vars, Catalog!vars, Vault, Private
  <2> QED  BY <2>1, <2>2
<1> QED  BY <1>1, <1>2, IndInvStep, IndInvInit, PTL DEF Spec, ImplementsCatalog,
            Catalog!Spec
=============================================================================
