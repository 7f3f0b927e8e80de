------------------------------ MODULE JobArtifacts ------------------------------
(***************************************************************************)
(* The artifacts of one job: a file per format, and a row per upload.  The *)
(* file's path does not depend on the attempt; a retry keeps the rows; a   *)
(* download serves the oldest row.                                         *)
(***************************************************************************)
EXTENDS Integers, Sequences

CONSTANTS
    Format,     \* artifact_format
    Uploader,   \* the uploads in flight at one time
    MaxAttempt, \* bound: attempts of the job
    MaxArtifacts,    \* bound: rows at one time
    NoFile      \* a file that does not exist; a request that is not there

ASSUME ArtifactBounds == MaxAttempt \in Nat \ {0} /\ MaxArtifacts \in Nat

VARIABLES
    job,        \* its attempt (which has the token of its own) and whether it runs
    file,       \* [format -> the attempt that wrote the file]
    row,        \* the job_artifacts rows, the oldest first
    upload,     \* [uploader -> what it is doing]
    erase,      \* an erase: how many rows it loaded, and how far it is
    bereft      \* history: formats whose file was removed and whose rows were not

artifactVars == <<job, file, row, upload, erase, bereft>>

Attempt == 1 .. MaxAttempt
ArtifactRow == [format : Format, attempt : Attempt]

ArtifactTypeOK ==
    /\ job \in [attempt : Attempt, running : BOOLEAN]
    /\ file \in [Format -> Attempt \cup {NoFile}]
    /\ row \in Seq(ArtifactRow)
    /\ upload \in [Uploader -> [at : {"body", "insert"}, format : Format, attempt : Attempt] \cup {NoFile}]
    /\ erase \in [at : {"files", "commit"}, count : 0 .. MaxArtifacts] \cup {NoFile}
    /\ bereft \subseteq Format

ASSUME ArtifactNulls ==
    /\ NoFile \notin Attempt
    /\ NoFile \notin [at : {"files", "commit"}, count : 0 .. MaxArtifacts]

ArtifactInit ==
    /\ job = [attempt |-> 1, running |-> TRUE]
    /\ file = [f \in Format |-> NoFile]
    /\ row = <<>>
    /\ upload = [u \in Uploader |-> NoFile]
    /\ erase = NoFile
    /\ bereft = {}

-----------------------------------------------------------------------------
\* The job ends (or is canceled), and is retried: a new token, the same row.
EndJob ==
    /\ job.running
    /\ job' = [job EXCEPT !.running = FALSE]
    /\ UNCHANGED <<file, row, upload, erase, bereft>>

RetryJob ==
    /\ ~job.running /\ job.attempt < MaxAttempt
    /\ job' = [attempt |-> job.attempt + 1, running |-> TRUE]
    /\ UNCHANGED <<file, row, upload, erase, bereft>>

\* _is_persisted_job_token: the token of the attempt that runs.
TokenIsValid(attempt) == attempt = job.attempt

\* upload_job_artifacts checks the token, and waits for the body.
UploadStarts(u, f, attempt) ==
    /\ upload[u] = NoFile
    /\ TokenIsValid(attempt)
    /\ upload' = [upload EXCEPT ![u] = [at |-> "body", format |-> f, attempt |-> attempt]]
    /\ UNCHANGED <<job, file, row, erase, bereft>>

\* The body has come: the file is written at once.
UploadWrites(u) ==
    LET up == upload[u] IN
    /\ up # NoFile /\ up.at = "body"
    /\ file' = [file EXCEPT ![up.format] = up.attempt]
    /\ upload' = [upload EXCEPT ![u].at = "insert"]
    /\ UNCHANGED <<job, row, erase, bereft>>

UploadCommits(u) ==
    LET up == upload[u] IN
    /\ up # NoFile /\ up.at = "insert" /\ Len(row) < MaxArtifacts
    /\ row' = Append(row, [format |-> up.format, attempt |-> up.attempt])
    /\ upload' = [upload EXCEPT ![u] = NoFile]
    /\ UNCHANGED <<job, file, erase, bereft>>

\* The runner went away, the commit failed, or the process stopped.
UploadFails(u) ==
    /\ upload[u] # NoFile
    /\ upload' = [upload EXCEPT ![u] = NoFile]
    /\ UNCHANGED <<job, file, row, erase, bereft>>

-----------------------------------------------------------------------------
Formats(first, last) == {row[i].format : i \in first .. last}
Writing == {upload[u].format : u \in {v \in Uploader : upload[v] # NoFile /\ upload[v].at = "insert"}}

\* erase_project_job of a job that is over, and the deletion of its pipeline:
\* the job is loaded with its rows, ...
EraseStarts ==
    /\ erase = NoFile /\ ~job.running
    /\ erase' = [at |-> "files", count |-> Len(row)]
    /\ UNCHANGED <<job, file, row, upload, bereft>>

\* ... the files of those rows are removed, ...
EraseRemoves ==
    LET gone == Formats(1, erase.count) IN
    /\ erase # NoFile /\ erase.at = "files"
    /\ file' = [f \in Format |-> IF f \in gone THEN NoFile ELSE file[f]]
    /\ erase' = [erase EXCEPT !.at = "commit"]
    /\ bereft' = bereft \cup (gone \cap (Formats(erase.count + 1, Len(row)) \cup Writing))
    /\ UNCHANGED <<job, row, upload>>

\* Mutation: one row too few.
EraseKeepsARow ==
    /\ erase # NoFile /\ erase.at = "commit"
    /\ row' = IF erase.count = 0 THEN row ELSE SubSeq(row, erase.count, Len(row))
    /\ erase' = NoFile
    /\ UNCHANGED <<job, file, upload, bereft>>

\* ... and the rows deleted.
EraseCommits ==
    /\ erase # NoFile /\ erase.at = "commit"
    /\ row' = SubSeq(row, erase.count + 1, Len(row))
    /\ erase' = NoFile
    /\ UNCHANGED <<job, file, upload, bereft>>

\* "database is locked", or the process stops.
EraseFails ==
    /\ erase # NoFile
    /\ bereft' = IF erase.at = "commit" THEN bereft \cup Formats(1, erase.count) ELSE bereft
    /\ erase' = NoFile
    /\ UNCHANGED <<job, file, row, upload>>

ArtifactNext ==
    \/ EndJob \/ RetryJob
    \/ \E u \in Uploader :
        \/ \E f \in Format, a \in Attempt : UploadStarts(u, f, a)
        \/ UploadWrites(u) \/ UploadCommits(u) \/ UploadFails(u)
    \/ EraseStarts \/ EraseRemoves \/ EraseCommits \/ EraseFails

ArtifactSpec == ArtifactInit /\ [][ArtifactNext]_artifactVars

-----------------------------------------------------------------------------
\* A row has its file, whatever uploads, retries and erases overlap, unless an
\* erase removed the file of an upload it had not seen or failed half way.
ArtifactsAreThere ==
    \A i \in DOMAIN row :
        \/ file[row[i].format] # NoFile
        \/ row[i].format \in bereft
        \/ erase # NoFile /\ erase.at = "commit" /\ i <= erase.count
=============================================================================
