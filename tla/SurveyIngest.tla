------------------------------ MODULE SurveyIngest ------------------------------
(***************************************************************************)
(* Power-quality surveys: the upload handler of the server                 *)
(* (routes_survey.py), the worker that drains the inbox in a process of    *)
(* its own (survey_ingest.py) and the withdrawal of a survey by its        *)
(* account (routes_admin.py delete_node).                                  *)
(*                                                                         *)
(* They share the node database and two directories per survey.  A file is *)
(* written in Parts chunks, with an await between them; the worker may     *)
(* rename it meanwhile.  What a file holds is its chunks, and what of it   *)
(* is staged are rows <<survey, file, chunk, time and phase>>.  Of the     *)
(* manifest in the inbox the worker needs only that it can be parsed, and  *)
(* of the one in the archive nothing.                                      *)
(***************************************************************************)
EXTENDS Naturals, FiniteSets

CONSTANTS
    Surveys,
    NFiles,       \* the number of files of each upload
    Parts,        \* chunks of a file
    Withdrawn,    \* bound: the surveys whose account may withdraw them
    Pqdif,        \* the files that need the external converter
    Unreadable,   \* surveys with a file that may make the worker raise: one that
                  \* is no text, or rows the server's models refuse
    MaxFaults,    \* bound: deaths of the worker and errors in one survey
    TimesAndPhases(_),  \* of the rows in a chunk <<survey, file, chunk>>
    None          \* the worker has no survey in hand

Files(s) == 1..NFiles[s]

ASSUME SurveyAssumption ==
    /\ NFiles \in [Surveys -> Nat \ {0}] /\ Parts \in Nat \ {0} /\ MaxFaults \in Nat
    /\ Pqdif \subseteq Nat /\ Withdrawn \cup Unreadable \subseteq Surveys
    /\ None \notin Surveys

VARIABLES
    node,             \* the survey's node in the database
    upload,           \* its upload: what it does next
    current,          \* the file the upload writes
    withdrawal,       \* its withdrawal: what it does next
    inbox, archive,   \* surveys whose directory exists
    place, size,      \* each file: its directory, the chunks written
    staged,           \* rows in the staging files
    processed,        \* surveys with a manifest in the archive
    manifest,         \* the one in the inbox: "none", "whole", or "torn" by a death
    pc, left, survey, \* worker: where it is, surveys still to drain, the one in hand
    listed, handled,  \* its data files, and those parsed and to be moved
    \* History, read by properties only, and counter of the bound:
    overlapped,       \* surveys the worker had in hand during their upload or withdrawal
    unconverted,      \* of each survey, the files whose last conversion failed
    faults

serverVars == <<node, upload, current, withdrawal>>
diskVars == <<inbox, archive, place, size, processed, manifest>>
workerVars == <<pc, left, survey, listed, handled>>
history == <<staged, overlapped, unconverted, faults>>
vars == <<serverVars, diskVars, workerVars, history>>

In(s, dir) == {f \in Files(s) : place[s][f] = dir}

\* rmtree: a directory goes with its files; a writer keeps its open file.
Removed(s, dirs) == [place EXCEPT ![s] =
                       [f \in Files(s) |-> IF @[f] \in dirs THEN "gone" ELSE @[f]]]

Uploading(s) == upload[s] \in {"mkdir", "open", "write", "manifest"}

--------------------------------------------------------------------------------
Init ==
    /\ node = [s \in Surveys |-> "absent"]
    /\ upload = [s \in Surveys |-> "create_node"]
    /\ current = [s \in Surveys |-> 1]
    /\ withdrawal = [s \in Surveys |-> "delete_node"]
    /\ inbox = {} /\ archive = {} /\ processed = {}
    /\ manifest = [s \in Surveys |-> "none"]
    /\ place = [s \in Surveys |-> [f \in Files(s) |-> "nowhere"]]
    /\ size = [s \in Surveys |-> [f \in Files(s) |-> 0]]
    /\ pc = "idle" /\ left = {} /\ survey = None /\ listed = {} /\ handled = {}
    /\ staged = {} /\ overlapped = {} /\ faults = 0
    /\ unconverted = [s \in Surveys |-> {}]

--------------------------------------------------------------------------------
(* survey_upload, past its validation.                                     *)

UploadGoes(s, label) == upload' = [upload EXCEPT ![s] = label]

create_node(s) ==
    /\ upload[s] = "create_node"
    /\ node' = [node EXCEPT ![s] = "live"]
    /\ UploadGoes(s, "mkdir")
    /\ UNCHANGED <<current, withdrawal, diskVars, workerVars, history>>

mkdir(s) ==
    /\ upload[s] = "mkdir"
    /\ inbox' = inbox \cup {s}
    /\ UploadGoes(s, "open")
    /\ UNCHANGED <<node, current, withdrawal, archive, place, size, processed,
                   manifest, workerVars, history>>

\* Without its directory the file cannot be created: a 500.
open_file(s) ==
    /\ upload[s] = "open"
    /\ \/ /\ s \in inbox
          /\ place' = [place EXCEPT ![s][current[s]] = "inbox"]
          /\ UploadGoes(s, "write")
       \/ s \notin inbox /\ UploadGoes(s, "failed") /\ UNCHANGED place
    /\ UNCHANGED <<node, current, withdrawal, inbox, archive, size, processed,
                   manifest, workerVars, history>>

write_chunk(s) ==
    LET f == current[s] IN
    /\ upload[s] = "write"
    /\ size' = [size EXCEPT ![s][f] = @ + 1]
    /\ IF size[s][f] + 1 < Parts
       THEN UNCHANGED <<upload, current>>
       ELSE /\ UploadGoes(s, IF f < NFiles[s] THEN "open" ELSE "manifest")
            /\ current' = [current EXCEPT ![s] = IF f < NFiles[s] THEN f + 1 ELSE f]
    /\ UNCHANGED <<node, withdrawal, inbox, archive, place, processed, manifest, workerVars,
                   history>>

\* The manifest completes the upload, the portal gets a 200.
write_manifest(s) ==
    /\ upload[s] = "manifest"
    /\ \/ /\ s \in inbox
          /\ manifest' = [manifest EXCEPT ![s] = "whole"]
          /\ UploadGoes(s, "accepted")
       \/ s \notin inbox /\ UploadGoes(s, "failed") /\ UNCHANGED manifest
    /\ UNCHANGED <<node, current, withdrawal, inbox, archive, place, size, processed,
                   workerVars, history>>

--------------------------------------------------------------------------------
(* delete_node of the admin routes: erase, then purge both directories.    *)

withdraw(s) ==
    /\ s \in Withdrawn /\ withdrawal[s] = "delete_node" /\ node[s] = "live"
    /\ node' = [node EXCEPT ![s] = "erased"]
    /\ withdrawal' = [withdrawal EXCEPT ![s] = "inbox"]
    /\ overlapped' = IF survey = s THEN overlapped \cup {s} ELSE overlapped
    /\ UNCHANGED <<upload, current, diskVars, workerVars, staged,
                   unconverted, faults>>

\* rmtree of the inbox of s.
EmptyInbox(s) ==
    /\ inbox' = inbox \ {s} /\ place' = Removed(s, {"inbox"})
    /\ manifest' = [manifest EXCEPT ![s] = "none"]

\* Mutant: the archive is forgotten.
purge_inbox(s) ==
    /\ withdrawal[s] = "inbox" /\ EmptyInbox(s)
    /\ withdrawal' = [withdrawal EXCEPT ![s] = "done"]
    /\ UNCHANGED <<node, upload, current, archive, size, processed, workerVars, history>>

purge(s) ==
    /\ \/ /\ withdrawal[s] = "inbox" /\ EmptyInbox(s)
          /\ withdrawal' = [withdrawal EXCEPT ![s] = "archive"]
          /\ UNCHANGED <<archive, processed>>
       \/ /\ withdrawal[s] = "archive"
          /\ archive' = archive \ {s} /\ place' = Removed(s, {"archive"})
          /\ processed' = processed \ {s}
          /\ withdrawal' = [withdrawal EXCEPT ![s] = "done"]
          /\ UNCHANGED <<inbox, manifest>>
    /\ UNCHANGED <<node, upload, current, size, workerVars, history>>

--------------------------------------------------------------------------------
(* The worker: drain, and process_survey on each directory of the inbox.   *)

\* This survey is over; the drain goes on with the next one.
NextSurvey ==
    /\ pc' = IF left = {} THEN "idle" ELSE "get_node"
    /\ survey' = None /\ listed' = {} /\ handled' = {}
    /\ UNCHANGED left

\* Mutant: a survey that has an archive is taken for processed.
drain_new ==
    /\ pc = "idle" /\ inbox \ archive # {}
    /\ left' = inbox \ archive
    /\ pc' = "get_node"
    /\ UNCHANGED <<serverVars, diskVars, survey, listed, handled, history>>

drain ==
    /\ pc = "idle" /\ inbox # {}
    /\ left' = inbox
    /\ pc' = "get_node"
    /\ UNCHANGED <<serverVars, diskVars, survey, listed, handled, history>>

\* process_survey(s) begins: the survey whose node is live is in hand.
Take(s) ==
    /\ node[s] = "live"
    /\ survey' = s /\ pc' = "iterdir"
    /\ overlapped' = IF Uploading(s) THEN overlapped \cup {s} ELSE overlapped
    /\ UNCHANGED diskVars

\* It ends with s untouched.
Skip(s) ==
    /\ pc' = IF left = {s} THEN "idle" ELSE "get_node"
    /\ UNCHANGED <<diskVars, survey, overlapped>>

\* Mutant: a survey that was withdrawn is skipped.
get_node_skips ==
    /\ pc = "get_node"
    /\ \E s \in left :
         /\ left' = left \ {s}
         /\ IF manifest[s] # "torn" /\ node[s] = "live" THEN Take(s) ELSE Skip(s)
    /\ UNCHANGED <<serverVars, listed, handled, staged, unconverted, faults>>

\* A manifest that was cut off raises before the node is looked up; a survey
\* that was withdrawn is purged.
get_node ==
    /\ pc = "get_node"
    /\ \E s \in left :
         /\ left' = left \ {s}
         /\ \/ manifest[s] = "torn" /\ Skip(s)
            \/ manifest[s] # "torn" /\ Take(s)
            \/ /\ manifest[s] # "torn" /\ node[s] # "live"
               /\ inbox' = inbox \ {s} /\ archive' = archive \ {s}
               /\ place' = Removed(s, {"inbox", "archive"})
               /\ processed' = processed \ {s}
               /\ manifest' = [manifest EXCEPT ![s] = "none"]
               /\ pc' = IF left = {s} THEN "idle" ELSE "get_node"
               /\ UNCHANGED <<size, survey, overlapped>>
    /\ UNCHANGED <<serverVars, listed, handled, staged, unconverted, faults>>

\* An exception leaves the survey as it is now.
iterdir ==
    /\ pc = "iterdir"
    /\ \/ /\ survey \in inbox
          /\ listed' = In(survey, "inbox")
          /\ pc' = "stage"
          /\ UNCHANGED <<left, survey, handled>>
       \/ survey \notin inbox /\ NextSurvey
    /\ UNCHANGED <<serverVars, diskVars, history>>

\* The rows in the first n chunks of file f.
RowsIn(s, f, n) == UNION {{<<s, f, i, k>> : k \in TimesAndPhases(<<s, f, i>>)} : i \in 1..n}

Rows(s, fs) == UNION {RowsIn(s, f, size[s][f]) : f \in fs}

\* ELECTRICAL_KEY.
Key(r) == <<r[1], r[4]>>

\* filter_new on rows rs of one survey, its files in the order of their names:
\* the first row of a key is staged.  The window of this process is empty.
Fresh(rs) ==
    {r \in rs : ~\E q \in rs : /\ Key(q) = Key(r)
                               /\ q[2] < r[2] \/ (q[2] = r[2] /\ q[3] < r[3])}

\* The files fs of the survey in hand are parsed, but for those whose conversion
\* failed; write_electrical.
Parsed(fs, failed) ==
    /\ staged' = staged \cup Fresh(Rows(survey, fs \ failed))
    /\ unconverted' = [unconverted EXCEPT ![survey] = (@ \ fs) \cup failed]
    /\ pc' = "archive_dir"
    /\ UNCHANGED <<left, survey, listed, overlapped, faults>>

\* Mutant: a deferred file is moved with the others.
stage_all ==
    /\ pc = "stage"
    /\ \/ /\ listed \subseteq In(survey, "inbox")
          /\ \E fs \in {listed, listed \ Pqdif} :
               \E failed \in SUBSET (fs \cap Pqdif) : Parsed(fs, failed)
          /\ handled' = listed
       \/ /\ survey \in Unreadable \/ ~(listed \subseteq In(survey, "inbox"))
          /\ NextSurvey /\ UNCHANGED history
    /\ UNCHANGED <<serverVars, diskVars>>

\* Every listed file is parsed, PQDIF only where the converter is installed: one
\* that it fails on, or takes too long for, has no rows and is handled all the
\* same.  A file that cannot be parsed, or is not there, is an exception, which
\* drain survives.
stage ==
    /\ pc = "stage"
    /\ \/ /\ listed \subseteq In(survey, "inbox")
          /\ \E fs \in {listed, listed \ Pqdif} :
               /\ \E failed \in SUBSET (fs \cap Pqdif) : Parsed(fs, failed)
               /\ handled' = fs
       \/ /\ survey \in Unreadable \/ ~(listed \subseteq In(survey, "inbox"))
          /\ NextSurvey /\ UNCHANGED history
    /\ UNCHANGED <<serverVars, diskVars>>

\* mkdir and the extracted series.
archive_dir ==
    /\ pc = "archive_dir"
    /\ archive' = archive \cup {survey}
    /\ pc' = "move"
    /\ UNCHANGED <<serverVars, inbox, place, size, processed, manifest, left, survey, listed,
                   handled, history>>

Waiting == {f \in handled : place[survey][f] # "archive"}

move ==
    /\ pc = "move" /\ Waiting # {}
    /\ \E f \in Waiting :
         /\ \A g \in Waiting : f <= g
         /\ \/ /\ place[survey][f] = "inbox" /\ survey \in archive
               /\ place' = [place EXCEPT ![survey][f] = "archive"]
               /\ UNCHANGED workerVars
            \/ /\ ~(place[survey][f] = "inbox" /\ survey \in archive)
               /\ NextSurvey
               /\ UNCHANGED place
    /\ UNCHANGED <<serverVars, inbox, archive, size, processed, manifest, history>>

\* The manifest goes to the archive and the inbox is removed with whatever is
\* in it.
Complete ==
    /\ \/ /\ survey \in archive
          /\ processed' = processed \cup {survey}
          /\ EmptyInbox(survey)
          /\ UNCHANGED <<archive, size>>
       \/ survey \notin archive /\ UNCHANGED diskVars
    /\ NextSurvey

\* Mutant: the inbox is removed although files in it are deferred.
finish_removes ==
    /\ pc = "move" /\ Waiting = {}
    /\ Complete
    /\ UNCHANGED <<serverVars, history>>

\* With deferred files the survey stays queued.
finish ==
    /\ pc = "move" /\ Waiting = {}
    /\ \/ listed = handled /\ Complete
       \/ /\ listed # handled
          /\ pc' = "rewrite"
          /\ UNCHANGED <<diskVars, left, survey, listed, handled>>
    /\ UNCHANGED <<serverVars, history>>

\* The manifest of a deferred survey is written anew in its inbox.
rewrite ==
    /\ pc = "rewrite"
    /\ \/ survey \in inbox /\ manifest' = [manifest EXCEPT ![survey] = "whole"]
       \/ survey \notin inbox /\ UNCHANGED manifest
    /\ NextSurvey
    /\ UNCHANGED <<serverVars, inbox, archive, place, size, processed, history>>

\* A disk error in one survey, which the drain survives, or the worker dies:
\* write_text empties the manifest before it writes it.
fail ==
    /\ pc # "idle" /\ faults < MaxFaults
    /\ \/ survey # None /\ NextSurvey
       \/ pc' = "idle" /\ left' = {} /\ survey' = None /\ listed' = {} /\ handled' = {}
    /\ \/ /\ pc = "rewrite" /\ survey \in inbox
          /\ manifest' = [manifest EXCEPT ![survey] = "torn"]
       \/ UNCHANGED manifest
    /\ faults' = faults + 1
    /\ UNCHANGED <<serverVars, inbox, archive, place, size, processed, staged, overlapped,
                   unconverted>>

worker == drain \/ get_node \/ iterdir \/ stage \/ archive_dir \/ move \/ finish \/ rewrite

uploading(s) == mkdir(s) \/ open_file(s) \/ write_chunk(s) \/ write_manifest(s)

Next ==
    \/ worker \/ fail
    \/ \E s \in Surveys : create_node(s) \/ uploading(s) \/ withdraw(s) \/ purge(s)

Spec == Init /\ [][Next]_vars

\* The server finishes what it began, the worker is scheduled again and again,
\* and at some of those times, for each survey, where the converter is installed.
FairSpec ==
    /\ Spec /\ WF_vars(worker)
    /\ \A s \in Surveys \ Unreadable :
         SF_vars(survey = s /\ stage /\ handled' = listed /\ pc' = "archive_dir")
    /\ \A s \in Surveys : WF_vars(uploading(s))
    /\ \A s \in Withdrawn : WF_vars(purge(s))

--------------------------------------------------------------------------------
(* Properties.                                                             *)

\* Each row of file f is in the staging files, or one of its time and phase is.
RowsStaged(s, f) == \A r \in Rows(s, {f}) : \E q \in staged : Key(q) = Key(r)

\* "Archive the files we staged": an archived file is complete, and for all of
\* its rows one of the survey with that time and phase is in the staging files,
\* so that nobody has to look into the archive again; unless its conversion
\* failed, or the worker took the survey in hand before its upload was complete.
ArchivedIsStaged ==
    \A s \in Surveys \ overlapped : \A f \in In(s, "archive") :
        size[s][f] = Parts /\ (f \in unconverted[s] \/ RowsStaged(s, f))

\* A file of an accepted survey is kept until its rows are staged ("leave
\* those files + the manifest in the inbox so nothing is lost") and in the
\* archive after that, as long as its account does not withdraw it.
AcceptedIsKept ==
    \A s \in Surveys \ overlapped : upload[s] = "accepted" /\ node[s] = "live" =>
        /\ In(s, "inbox") \cup In(s, "archive") = Files(s)
        /\ s \in processed => In(s, "archive") = Files(s)

\* "Withdrawal removes the raw contribution now": what it has purged from the
\* archive does not come back.
ArchiveStaysPurged == \A s \in Surveys : withdrawal[s] = "done" => s \notin archive

\* "One bad survey must not stop the rest": an accepted survey is processed in
\* the end, or withdrawn; no survey that makes the worker raise every time it
\* comes to it, death of the worker, missing converter or file that vanishes
\* under the worker strands it, but a death in the midst of its manifest.
SurveysAreProcessed ==
    \A s \in Surveys \ Unreadable :
        (upload[s] = "accepted") ~> (s \in processed \/ node[s] = "erased" \/ manifest[s] = "torn")

\* Nothing of a withdrawn survey is left in the inbox in the end, although its
\* upload may create the directory, and files in it, after the withdrawal has
\* purged it: the next drain purges it again.
InboxIsPurged ==
    \A s \in Withdrawn : (node[s] = "erased") ~> [](In(s, "inbox") = {})

\* The archive too is purged for good, if the worker did not have the survey
\* in hand meanwhile.
WithdrawnIsPurged ==
    \A s \in Withdrawn : (node[s] = "erased") ~> [](s \in overlapped \/ s \notin archive)

================================================================================
