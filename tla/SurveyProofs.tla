------------------------------ MODULE SurveyProofs ------------------------------
(***************************************************************************)
(* What upload, worker and withdrawal guarantee of a survey's files, for   *)
(* any numbers of surveys, files, chunks, withdrawals and faults: accepted *)
(* files are kept, archived ones are staged.                               *)
(***************************************************************************)
EXTENDS SurveyIngest, LinesProofs, FiniteSetTheorems

--------------------------------------------------------------------------------
(* The invariant.                                                          *)

Labels == {"create_node", "mkdir", "open", "write", "manifest", "accepted", "failed"}
Places == {"nowhere", "inbox", "archive", "gone"}
InHand == {"iterdir", "stage", "archive_dir", "move", "rewrite"}

Types ==
    /\ node \in [Surveys -> {"absent", "live", "erased"}]
    /\ upload \in [Surveys -> Labels]
    /\ current \in [Surveys -> Nat] /\ \A s \in Surveys : current[s] \in Files(s)
    /\ withdrawal \in [Surveys -> {"delete_node", "inbox", "archive", "done"}]
    /\ inbox \subseteq Surveys /\ archive \subseteq Surveys /\ processed \subseteq Surveys
    /\ manifest = [s \in Surveys |-> manifest[s]]
    /\ unconverted = [s \in Surveys |-> unconverted[s]]
    /\ place = [s \in Surveys |-> [f \in Files(s) |-> place[s][f]]]
    /\ size = [s \in Surveys |-> [f \in Files(s) |-> size[s][f]]]
    /\ \A s \in Surveys : \A f \in Files(s) : place[s][f] \in Places /\ size[s][f] \in Nat
    /\ pc \in {"idle", "get_node"} \cup InHand
    /\ left \subseteq Surveys /\ overlapped \subseteq Surveys
    /\ IF pc \in InHand THEN survey \in Surveys ELSE survey = None

\* A survey and its upload: before it is complete no file it has yet to open
\* or to finish is.
UploadOK(s) ==
    /\ upload[s] = "create_node" <=> node[s] = "absent"
    /\ node[s] # "erased" => withdrawal[s] = "delete_node"
    /\ upload[s] \in {"create_node", "mkdir"} => current[s] = 1
    /\ \A f \in Files(s) :
         /\ upload[s] \in {"manifest", "accepted"} \/ f < current[s] => size[s][f] = Parts
         /\ upload[s] \in {"create_node", "mkdir", "open", "write"} /\ f = current[s]
              => size[s][f] < Parts
         /\ f > current[s] => size[s][f] = 0

\* The files of a survey whose upload is not over yet.
Opened(s) == {f \in Files(s) : \/ f < current[s] \/ upload[s] = "manifest"
                               \/ f = current[s] /\ upload[s] = "write"}

\* While its node is live and the worker has not met its upload, a survey's
\* files are where they were put.
KeptOK(s) ==
    s \notin overlapped =>
        /\ upload[s] \in Labels \ {"accepted", "failed"} => s \notin processed
        /\ node[s] = "live" =>
             /\ upload[s] # "failed"
             /\ upload[s] \in {"open", "write", "manifest"} =>
                  s \in inbox /\ Opened(s) \subseteq In(s, "inbox")
             /\ upload[s] = "accepted" =>
                  /\ In(s, "inbox") \cup In(s, "archive") = Files(s)
                  /\ s \in processed => In(s, "archive") = Files(s)

\* All the converter and the parsers gave of a file is staged.
DoneWith(s, f) == f \in unconverted[s] \/ RowsStaged(s, f)

\* What is archived is complete and staged.
StagedOK(s) ==
    s \notin overlapped => \A f \in In(s, "archive") : size[s][f] = Parts /\ DoneWith(s, f)

\* The survey the worker has in hand: files it has not listed are archived,
\* those it is about to move are staged.
HandOK ==
    survey # None /\ survey \notin overlapped =>
        /\ upload[survey] = "accepted" /\ node[survey] = "live"
        /\ pc \in {"stage", "archive_dir", "move"} =>
             listed \subseteq Files(survey) /\ Files(survey) \ listed \subseteq In(survey, "archive")
        /\ pc \in {"archive_dir", "move"} =>
             handled \subseteq listed /\ \A f \in handled : DoneWith(survey, f)

SurveyOK(s) == UploadOK(s) /\ KeptOK(s) /\ StagedOK(s)

SurveyInv == Types /\ HandOK /\ \A s \in Surveys : SurveyOK(s)

--------------------------------------------------------------------------------
(* What a step leaves alone.                                               *)

\* What is done with stays so while its file does not grow, whatever is staged.
LEMMA DoneStays ==
    ASSUME NEW s, NEW f, DoneWith(s, f), size'[s] = size[s], staged \subseteq staged',
           f \in unconverted[s] => f \in unconverted'[s]
    PROVE  DoneWith(s, f)'
<1>1. Rows(s, {f})' = Rows(s, {f})
  BY DEF Rows
<1>2. RowsStaged(s, f) => RowsStaged(s, f)'
  BY <1>1 DEF RowsStaged, Key
<1> QED
  BY <1>2 DEF DoneWith

LEMMA StagedStays ==
    ASSUME NEW s, StagedOK(s), In(s, "archive")' \subseteq In(s, "archive"), size'[s] = size[s],
           staged \subseteq staged', overlapped \subseteq overlapped',
           In(s, "archive") \cap unconverted[s] \subseteq unconverted'[s]
    PROVE  StagedOK(s)'
<1>1. ASSUME NEW f \in In(s, "archive")', s \notin overlapped
      PROVE  size'[s][f] = Parts /\ DoneWith(s, f)'
  BY <1>1, DoneStays DEF StagedOK
<1> QED
  BY <1>1 DEF StagedOK

\* A step that changes nothing of survey s keeps what is said of it, though the
\* worker may stage and may be seen to overlap.
LEMMA Bystander ==
    ASSUME NEW s \in Surveys, SurveyOK(s),
           node'[s] = node[s], upload'[s] = upload[s], current'[s] = current[s],
           withdrawal'[s] = withdrawal[s], place'[s] = place[s], size'[s] = size[s],
           s \in inbox => s \in inbox', s \in processed <=> s \in processed',
           staged \subseteq staged', overlapped \subseteq overlapped',
           In(s, "archive") \cap unconverted[s] \subseteq unconverted'[s]
    PROVE  SurveyOK(s)'
<1>1. UploadOK(s)'
  BY DEF SurveyOK, UploadOK
<1>2. /\ \A dir : In(s, dir)' = In(s, dir)
      /\ Opened(s)' = Opened(s)
  BY DEF In, Opened
<1>3. KeptOK(s)'
  BY <1>2 DEF SurveyOK, KeptOK
<1>4. StagedOK(s)'
  BY <1>2, StagedStays DEF SurveyOK
<1> QED
  BY <1>1, <1>3, <1>4 DEF SurveyOK

\* The worker's survey is safe in its hand while its record and its files stay.
LEMMA HandStays ==
    ASSUME HandOK, UNCHANGED <<pc, survey, listed, handled>>,
           staged \subseteq staged', overlapped \subseteq overlapped', unconverted' = unconverted,
           survey # None /\ survey \notin overlapped =>
             /\ upload'[survey] = upload[survey] /\ node'[survey] = node[survey]
             /\ place'[survey] = place[survey] /\ size'[survey] = size[survey]
    PROVE  HandOK'
<1> SUFFICES ASSUME survey # None, survey \notin overlapped
             PROVE  HandOK'
  BY DEF HandOK
<1>1. In(survey, "archive")' = In(survey, "archive")
  BY DEF In
<1>2. \A f : DoneWith(survey, f) => DoneWith(survey, f)'
  BY DoneStays
<1> QED
  BY <1>1, <1>2 DEF HandOK

LEMMA HandEmpty ==
    ASSUME survey' = None
    PROVE  HandOK'
BY DEF HandOK

\* A survey in an untouched hand is not the one whose upload goes on.
LEMMA NotUploaded ==
    ASSUME HandOK, NEW s, upload[s] # "accepted"
    PROVE  survey # None /\ survey \notin overlapped => survey # s
BY DEF HandOK

LEMMA InitInv == Init => SurveyInv
<1> SUFFICES ASSUME Init PROVE SurveyInv
  OBVIOUS
<1> USE SurveyAssumption
<1>1. Types
  BY DEF Init, Types, Files, Labels, Places, InHand
<1>2. HandOK
  BY DEF Init, HandOK
<1>3. ASSUME NEW s \in Surveys PROVE SurveyOK(s)
  <2>1. \A f \in Files(s) : f \in Nat /\ ~(f < 1)
    BY DEF Files
  <2>2. In(s, "archive") = {}
    BY DEF Init, In
  <2> QED
    BY <2>1, <2>2 DEF Init, SurveyOK, UploadOK, KeptOK, StagedOK
<1> QED
  BY <1>1, <1>2, <1>3 DEF SurveyInv

--------------------------------------------------------------------------------
(* The upload.                                                             *)

LEMMA CreateKeeps ==
    ASSUME SurveyInv, NEW s \in Surveys, create_node(s)
    PROVE  SurveyInv'
<1>1. /\ node' = [node EXCEPT ![s] = "live"] /\ upload' = [upload EXCEPT ![s] = "mkdir"]
      /\ UNCHANGED <<current, withdrawal, inbox, archive, place, size, processed, manifest, pc, left, survey,
                     listed, handled, staged, overlapped, unconverted>>
      /\ upload[s] = "create_node"
  BY DEF create_node, UploadGoes, diskVars, workerVars, history
<1>2. Types'
  BY <1>1 DEF SurveyInv, Types, Labels, Files
<1>3. HandOK'
  BY <1>1, HandStays, NotUploaded DEF SurveyInv, Types
<1>4. ASSUME NEW t \in Surveys PROVE SurveyOK(t)'
  <2>1. CASE t # s
    BY <1>1, <2>1, Bystander DEF SurveyInv, Types
  <2>2. CASE t = s
    <3>1. node'[s] = "live" /\ upload'[s] = "mkdir"
      BY <1>1 DEF SurveyInv, Types
    <3>2. UploadOK(s)'
      BY <1>1, <3>1 DEF SurveyInv, SurveyOK, UploadOK
    <3>3. KeptOK(s)'
      BY <1>1, <3>1 DEF SurveyInv, SurveyOK, KeptOK, In, Labels
    <3>4. StagedOK(s)'
      BY <1>1, StagedStays DEF SurveyInv, SurveyOK, In
    <3> QED
      BY <2>2, <3>2, <3>3, <3>4 DEF SurveyOK
  <2> QED
    BY <2>1, <2>2
<1> QED
  BY <1>2, <1>3, <1>4 DEF SurveyInv

LEMMA MkdirKeeps ==
    ASSUME SurveyInv, NEW s \in Surveys, mkdir(s)
    PROVE  SurveyInv'
<1>1. /\ upload' = [upload EXCEPT ![s] = "open"] /\ inbox' = inbox \cup {s}
      /\ UNCHANGED <<node, current, withdrawal, archive, place, size, processed, manifest, pc, left, survey,
                     listed, handled, staged, overlapped, unconverted>>
      /\ upload[s] = "mkdir"
  BY DEF mkdir, UploadGoes, workerVars, history
<1>2. Types'
  BY <1>1 DEF SurveyInv, Types, Labels, Files
<1>3. HandOK'
  BY <1>1, HandStays, NotUploaded DEF SurveyInv, Types
<1>4. ASSUME NEW t \in Surveys PROVE SurveyOK(t)'
  <2>1. CASE t # s
    BY <1>1, <2>1, Bystander DEF SurveyInv, Types
  <2>2. CASE t = s
    <3>1. upload'[s] = "open"
      BY <1>1 DEF SurveyInv, Types
    <3>2. UploadOK(s)'
      BY <1>1, <3>1 DEF SurveyInv, SurveyOK, UploadOK
    <3>3. Opened(s)' = {}
      <4>1. \A f \in Files(s) : f \in Nat /\ ~(f < 1)
        BY SurveyAssumption DEF Files
      <4> QED
        BY <1>1, <3>1, <4>1 DEF SurveyInv, SurveyOK, UploadOK, Opened
    <3>4. KeptOK(s)'
      BY <1>1, <3>1, <3>3 DEF SurveyInv, SurveyOK, KeptOK, In, Labels
    <3>5. StagedOK(s)'
      BY <1>1, StagedStays DEF SurveyInv, SurveyOK, In
    <3> QED
      BY <2>2, <3>2, <3>4, <3>5 DEF SurveyOK
  <2> QED
    BY <2>1, <2>2
<1> QED
  BY <1>2, <1>3, <1>4 DEF SurveyInv

LEMMA OpenKeeps ==
    ASSUME SurveyInv, NEW s \in Surveys, open_file(s)
    PROVE  SurveyInv'
<1> DEFINE f == current[s]
<1>1. /\ upload[s] = "open"
      /\ UNCHANGED <<node, current, withdrawal, inbox, archive, size, processed, manifest, pc, left, survey,
                     listed, handled, staged, overlapped, unconverted>>
      /\ f \in Files(s)
  BY DEF open_file, workerVars, history, SurveyInv, Types
<1>2. CASE s \in inbox
  <2>1. upload' = [upload EXCEPT ![s] = "write"] /\ place' = [place EXCEPT ![s][f] = "inbox"]
    BY <1>2 DEF open_file, UploadGoes
  <2>2. /\ upload'[s] = "write" /\ place'[s][f] = "inbox"
        /\ \A g \in Files(s) : g # f => place'[s][g] = place[s][g]
        /\ \A t \in Surveys : t # s => place'[t] = place[t] /\ upload'[t] = upload[t]
    BY <1>1, <2>1 DEF SurveyInv, Types
  <2>3. Types'
    <3>1. place' = [t \in Surveys |-> [g \in Files(t) |-> place'[t][g]]]
      BY <1>1, <2>1, ZenonT(60) DEF SurveyInv, Types
    <3>2. ASSUME NEW t \in Surveys, NEW g \in Files(t)
          PROVE  place'[t][g] \in Places
      <4>1. place[t][g] \in Places
        BY DEF SurveyInv, Types
      <4>2. t # s \/ g # f => place'[t][g] = place[t][g]
        BY <2>2
      <4> QED
        BY <2>2, <4>1, <4>2 DEF Places
    <3>3. upload' \in [Surveys -> Labels]
      BY <2>1 DEF SurveyInv, Types, Labels
    <3> QED
      BY <1>1, <3>1, <3>2, <3>3 DEF SurveyInv, Types
  <2>4. HandOK'
    BY <1>1, <2>2, HandStays, NotUploaded DEF SurveyInv, Types
  <2>5. UploadOK(s)'
    BY <1>1, <2>2 DEF SurveyInv, SurveyOK, UploadOK
  <2>6. In(s, "archive")' \subseteq In(s, "archive")
    BY <2>2 DEF In
  <2>7. StagedOK(s)'
    BY <1>1, <2>6, StagedStays DEF SurveyInv, SurveyOK
  <2>8. Opened(s)' \subseteq Opened(s) \cup {f}
    BY <1>1, <2>2 DEF Opened
  <2>9. In(s, "inbox") \cup {f} \subseteq In(s, "inbox")'
    BY <1>1, <2>2 DEF In
  <2>10. KeptOK(s)'
    BY <1>1, <1>2, <2>2, <2>8, <2>9 DEF SurveyInv, SurveyOK, KeptOK, Labels
  <2>11. ASSUME NEW t \in Surveys PROVE SurveyOK(t)'
    <3>1. CASE t # s
      BY <1>1, <2>2, <3>1, Bystander DEF SurveyInv
    <3> QED
      BY <2>5, <2>7, <2>10, <3>1 DEF SurveyOK
  <2> QED
    BY <2>3, <2>4, <2>11 DEF SurveyInv
<1>3. CASE s \notin inbox
  <2>1. upload' = [upload EXCEPT ![s] = "failed"] /\ place' = place
    BY <1>3 DEF open_file, UploadGoes
  <2>2. upload'[s] = "failed" /\ \A t \in Surveys : t # s => upload'[t] = upload[t]
    BY <2>1 DEF SurveyInv, Types
  <2>3. Types'
    BY <1>1, <2>1 DEF SurveyInv, Types, Labels, Files
  <2>4. HandOK'
    BY <1>1, <2>1, <2>2, HandStays, NotUploaded DEF SurveyInv, Types
  <2>5. UploadOK(s)'
    BY <1>1, <2>2 DEF SurveyInv, SurveyOK, UploadOK
  <2>6. node[s] # "live" \/ s \in overlapped
    BY <1>1, <1>3 DEF SurveyInv, SurveyOK, KeptOK
  <2>7. KeptOK(s)' /\ StagedOK(s)'
    <3>1. In(s, "archive")' = In(s, "archive")
      BY <2>1 DEF In
    <3> QED
      BY <1>1, <2>1, <2>2, <2>6, <3>1, StagedStays DEF SurveyInv, SurveyOK, KeptOK
  <2>8. ASSUME NEW t \in Surveys PROVE SurveyOK(t)'
    <3>1. CASE t # s
      BY <1>1, <2>1, <2>2, <3>1, Bystander DEF SurveyInv
    <3> QED
      BY <2>5, <2>7, <3>1 DEF SurveyOK
  <2> QED
    BY <2>3, <2>4, <2>8 DEF SurveyInv
<1> QED
  BY <1>2, <1>3

LEMMA WriteKeeps ==
    ASSUME SurveyInv, NEW s \in Surveys, write_chunk(s)
    PROVE  SurveyInv'
<1> USE SurveyAssumption
<1> DEFINE f == current[s]
           done == size[s][f] + 1
<1>1. /\ upload[s] = "write" /\ f \in Files(s) /\ f \in Nat
      /\ UNCHANGED <<node, withdrawal, inbox, archive, place, processed, manifest, pc, left, survey,
                     listed, handled, staged, overlapped, unconverted>>
      /\ size' = [size EXCEPT ![s][f] = @ + 1]
  BY DEF write_chunk, workerVars, history, SurveyInv, Types
<1>2. /\ size'[s][f] = done
      /\ \A g \in Files(s) : g # f => size'[s][g] = size[s][g]
      /\ \A t \in Surveys : t # s => size'[t] = size[t]
      /\ size' = [t \in Surveys |-> [g \in Files(t) |-> size'[t][g]]]
  BY <1>1, ZenonT(60) DEF SurveyInv, Types
<1>3. size[s][f] \in Nat /\ size[s][f] < Parts /\ done \in Nat /\ Parts \in Nat
  BY <1>1 DEF SurveyInv, Types, SurveyOK, UploadOK
<1>4. NFiles[s] \in Nat /\ \A g \in Files(s) : g \in Nat /\ g <= NFiles[s]
  BY DEF Files
<1>5. \/ done < Parts /\ UNCHANGED <<upload, current>>
      \/ /\ done = Parts /\ f < NFiles[s] /\ upload' = [upload EXCEPT ![s] = "open"]
         /\ current' = [current EXCEPT ![s] = f + 1]
      \/ /\ done = Parts /\ f = NFiles[s] /\ upload' = [upload EXCEPT ![s] = "manifest"]
         /\ current' = [current EXCEPT ![s] = f]
  BY <1>1, <1>3, <1>4 DEF write_chunk, UploadGoes
<1>6. \/ done < Parts /\ upload'[s] = "write" /\ current'[s] = f
      \/ done = Parts /\ f < NFiles[s] /\ upload'[s] = "open" /\ current'[s] = f + 1
      \/ done = Parts /\ f = NFiles[s] /\ upload'[s] = "manifest" /\ current'[s] = f
  BY <1>1, <1>5 DEF SurveyInv, Types
<1>7. \A t \in Surveys : t # s => upload'[t] = upload[t] /\ current'[t] = current[t]
  BY <1>5 DEF SurveyInv, Types
<1>8. Types'
  <2>1. upload' \in [Surveys -> Labels] /\ current' \in [Surveys -> Nat]
    <3>1. upload \in [Surveys -> Labels] /\ current \in [Surveys -> Nat] /\ f \in Nat /\ f + 1 \in Nat
      BY <1>1 DEF SurveyInv, Types
    <3>2. {"open", "manifest"} \subseteq Labels
      BY DEF Labels
    <3> HIDE DEF f
    <3> QED
      BY <1>5, <3>1, <3>2
  <2>2. \A t \in Surveys : current'[t] \in Files(t)
    <3>1. current'[s] \in Files(s)
      BY <1>1, <1>4, <1>6 DEF Files
    <3> QED
      BY <1>7, <3>1 DEF SurveyInv, Types
  <2>3. \A t \in Surveys : \A g \in Files(t) : size'[t][g] \in Nat
    BY <1>2, <1>3 DEF SurveyInv, Types
  <2> QED
    BY <1>1, <1>2, <2>1, <2>2, <2>3 DEF SurveyInv, Types
<1>9. HandOK'
  BY <1>1, <1>2, <1>7, HandStays, NotUploaded DEF SurveyInv, Types
<1>10. UploadOK(s)'
  <2>1. \A g \in Files(s) : /\ g < f => size[s][g] = Parts
                            /\ g > f => size[s][g] = 0
    BY <1>1 DEF SurveyInv, SurveyOK, UploadOK
  <2>2. upload'[s] # "create_node" /\ upload'[s] # "mkdir" /\ node[s] # "absent"
    BY <1>1, <1>6 DEF SurveyInv, SurveyOK, UploadOK
  <2>3. node[s] # "erased" => withdrawal[s] = "delete_node"
    BY DEF SurveyInv, SurveyOK, UploadOK
  <2>4. ASSUME NEW g \in Files(s)
        PROVE  /\ upload'[s] \in {"manifest", "accepted"} \/ g < current'[s] => size'[s][g] = Parts
               /\ upload'[s] \in {"create_node", "mkdir", "open", "write"} /\ g = current'[s]
                    => size'[s][g] < Parts
               /\ g > current'[s] => size'[s][g] = 0
    <3>1. g \in Nat /\ g <= NFiles[s] /\ f \in Nat
      BY <1>1, <1>4
    <3>2. /\ g < f => size'[s][g] = Parts
          /\ g = f => size'[s][g] = done
          /\ g > f => size'[s][g] = 0
      BY <1>1, <1>2, <2>1, <3>1
    <3> HIDE DEF f, done
    <3>3. CASE done < Parts /\ upload'[s] = "write" /\ current'[s] = f
      BY <3>1, <3>2, <3>3
    <3>4. CASE done = Parts /\ f < NFiles[s] /\ upload'[s] = "open" /\ current'[s] = f + 1
      <4>1. g < f + 1 <=> g < f \/ g = f
        BY <3>1
      <4>2. g > f + 1 => g > f
        BY <3>1
      <4>3. g = f + 1 => g > f
        BY <3>1
      <4>4. 0 < Parts
        BY <1>3
      <4> QED
        BY <3>2, <3>4, <4>1, <4>2, <4>3, <4>4
    <3>5. CASE done = Parts /\ f = NFiles[s] /\ upload'[s] = "manifest" /\ current'[s] = f
      <4>1. g < f \/ g = f
        BY <1>4, <3>1, <3>5
      <4>2. ~(g > f)
        BY <3>1, <4>1
      <4> QED
        BY <3>2, <3>5, <4>1, <4>2
    <3> QED
      BY <1>6, <3>3, <3>4, <3>5
  <2> QED
    BY <1>1, <2>2, <2>3, <2>4 DEF UploadOK
<1>11. StagedOK(s)'
  <2> SUFFICES ASSUME s \notin overlapped, NEW g \in In(s, "archive")
               PROVE  size'[s][g] = Parts /\ DoneWith(s, g)'
    BY <1>1 DEF StagedOK, In
  <2>1. size[s][g] = Parts /\ DoneWith(s, g)
    BY DEF SurveyInv, SurveyOK, StagedOK
  <2>2. g # f /\ g \in Files(s)
    BY <1>3, <2>1 DEF In
  <2>3. size'[s][g] = size[s][g]
    BY <1>2, <2>2
  <2>4. Rows(s, {g})' = Rows(s, {g})
    BY <2>3 DEF Rows
  <2> QED
    BY <1>1, <2>1, <2>3, <2>4 DEF DoneWith, RowsStaged, Key
<1>12. KeptOK(s)'
  <2>1. Opened(s)' \subseteq Opened(s)
    BY <1>1, <1>4, <1>6 DEF Opened
  <2>2. In(s, "inbox")' = In(s, "inbox") /\ upload'[s] \in {"open", "write", "manifest"}
    BY <1>1, <1>6 DEF In
  <2> QED
    BY <1>1, <2>1, <2>2 DEF SurveyInv, SurveyOK, KeptOK, Labels
<1>13. ASSUME NEW t \in Surveys PROVE SurveyOK(t)'
  <2>1. CASE t # s
    BY <1>1, <1>2, <1>7, <2>1, Bystander DEF SurveyInv
  <2> QED
    BY <1>10, <1>11, <1>12, <2>1 DEF SurveyOK
<1> QED
  BY <1>8, <1>9, <1>13 DEF SurveyInv

LEMMA ManifestKeeps ==
    ASSUME SurveyInv, NEW s \in Surveys, write_manifest(s)
    PROVE  SurveyInv'
<1>1. /\ upload[s] = "manifest"
      /\ UNCHANGED <<node, current, withdrawal, inbox, archive, place, size, processed, pc, left,
                     survey, listed, handled, staged, overlapped, unconverted>>
      /\ upload' = [upload EXCEPT ![s] = IF s \in inbox THEN "accepted" ELSE "failed"]
      /\ \/ manifest' = [manifest EXCEPT ![s] = "whole"]
         \/ manifest' = manifest
  BY DEF write_manifest, UploadGoes, workerVars, history
<1>2. /\ upload'[s] = IF s \in inbox THEN "accepted" ELSE "failed"
      /\ \A t \in Surveys : t # s => upload'[t] = upload[t]
  BY <1>1 DEF SurveyInv, Types
<1>3. Types'
  BY <1>1 DEF SurveyInv, Types, Labels, Files
<1>4. HandOK'
  BY <1>1, <1>2, HandStays, NotUploaded DEF SurveyInv, Types
<1>5. UploadOK(s)'
  BY <1>1, <1>2 DEF SurveyInv, SurveyOK, UploadOK
<1>6. StagedOK(s)'
  BY <1>1, StagedStays DEF SurveyInv, SurveyOK, In
<1>7. KeptOK(s)'
  <2>1. Opened(s) = Files(s)
    BY <1>1 DEF Opened
  <2>2. /\ In(s, "inbox")' = In(s, "inbox") /\ In(s, "archive")' = In(s, "archive")
        /\ In(s, "inbox") \cup In(s, "archive") \subseteq Files(s)
    BY <1>1 DEF In
  <2> QED
    BY <1>1, <1>2, <2>1, <2>2 DEF SurveyInv, SurveyOK, KeptOK, Labels
<1>8. ASSUME NEW t \in Surveys PROVE SurveyOK(t)'
  <2>1. CASE t # s
    BY <1>1, <1>2, <2>1, Bystander DEF SurveyInv
  <2> QED
    BY <1>5, <1>6, <1>7, <2>1 DEF SurveyOK
<1> QED
  BY <1>3, <1>4, <1>8 DEF SurveyInv

--------------------------------------------------------------------------------
(* The withdrawal.                                                         *)

LEMMA WithdrawKeeps ==
    ASSUME SurveyInv, NEW s \in Surveys, withdraw(s)
    PROVE  SurveyInv'
<1>1. /\ node[s] = "live" /\ node' = [node EXCEPT ![s] = "erased"]
      /\ withdrawal' = [withdrawal EXCEPT ![s] = "inbox"]
      /\ overlapped' = IF survey = s THEN overlapped \cup {s} ELSE overlapped
      /\ UNCHANGED <<upload, current, inbox, archive, place, size, processed, manifest, pc, left,
                     survey, listed, handled, staged, unconverted>>
  BY DEF withdraw, diskVars, workerVars
<1>2. /\ node'[s] = "erased" /\ \A t \in Surveys : t # s => node'[t] = node[t]
      /\ \A t \in Surveys : t # s => withdrawal'[t] = withdrawal[t]
  BY <1>1 DEF SurveyInv, Types
<1>3. Types'
  BY <1>1 DEF SurveyInv, Types, Files
<1>4. HandOK'
  <2>1. CASE survey = s
    BY <1>1, <2>1 DEF HandOK
  <2>2. CASE survey # s
    <3>1. survey # None => survey \in Surveys
      BY DEF SurveyInv, Types
    <3> QED
      BY <1>1, <1>2, <2>2, <3>1, HandStays DEF SurveyInv
  <2> QED
    BY <2>1, <2>2
<1>5. UploadOK(s)' /\ KeptOK(s)' /\ StagedOK(s)'
  <2>1. UploadOK(s)' /\ KeptOK(s)'
    BY <1>1, <1>2 DEF SurveyInv, SurveyOK, UploadOK, KeptOK, In
  <2> QED
    BY <1>1, <2>1, StagedStays DEF SurveyInv, SurveyOK, In
<1>6. ASSUME NEW t \in Surveys PROVE SurveyOK(t)'
  <2>1. CASE t # s
    BY <1>1, <1>2, <2>1, Bystander DEF SurveyInv
  <2> QED
    BY <1>5, <2>1 DEF SurveyOK
<1> QED
  BY <1>3, <1>4, <1>6 DEF SurveyInv

\* What is purged of a survey that is not live leaves nothing to account for.
LEMMA Purged ==
    ASSUME NEW s \in Surveys, SurveyOK(s), node[s] # "live",
           node'[s] = node[s], upload'[s] = upload[s], current'[s] = current[s],
           node[s] # "erased" => withdrawal'[s] = withdrawal[s], size'[s] = size[s],
           In(s, "archive")' \subseteq In(s, "archive"), processed' \subseteq processed,
           staged \subseteq staged', overlapped \subseteq overlapped', unconverted' = unconverted
    PROVE  SurveyOK(s)'
<1>1. UploadOK(s)'
  BY DEF SurveyOK, UploadOK
<1>2. KeptOK(s)'
  BY DEF SurveyOK, KeptOK
<1>3. StagedOK(s)'
  BY StagedStays DEF SurveyOK
<1> QED
  BY <1>1, <1>2, <1>3 DEF SurveyOK

LEMMA RemovedFiles ==
    ASSUME Types, NEW s \in Surveys, NEW dirs, place' = Removed(s, dirs)
    PROVE  /\ \A t \in Surveys : t # s => place'[t] = place[t]
           /\ \A f \in Files(s) : place'[s][f] = IF place[s][f] \in dirs THEN "gone" ELSE place[s][f]
           /\ place' = [t \in Surveys |-> [f \in Files(t) |-> place'[t][f]]]
           /\ \A t \in Surveys : \A f \in Files(t) : place'[t][f] \in Places
           /\ In(s, "archive")' \subseteq In(s, "archive")
<1>1. place' = [place EXCEPT ![s] =
                  [f \in Files(s) |-> IF place[s][f] \in dirs THEN "gone" ELSE place[s][f]]]
  BY DEF Removed
<1>2. place = [t \in Surveys |-> place[t]]
  BY DEF Types
<1>3. /\ place' = [t \in Surveys |-> place'[t]]
      /\ \A t \in Surveys : t # s => place'[t] = place[t]
      /\ place'[s] = [f \in Files(s) |-> IF place[s][f] \in dirs THEN "gone" ELSE place[s][f]]
  BY <1>1, <1>2
<1>4. \A f \in Files(s) : place'[s][f] = IF place[s][f] \in dirs THEN "gone" ELSE place[s][f]
  BY <1>3
<1>5. place' = [t \in Surveys |-> [f \in Files(t) |-> place'[t][f]]]
  <2>1. ASSUME NEW t \in Surveys PROVE place'[t] = [f \in Files(t) |-> place'[t][f]]
    <3>1. CASE t = s
      BY <1>3, <3>1
    <3>2. CASE t # s
      BY <1>3, <3>2 DEF Types
    <3> QED
      BY <3>1, <3>2
  <2> QED
    BY <1>3, <2>1
<1>6. ASSUME NEW t \in Surveys, NEW f \in Files(t)
      PROVE  place'[t][f] \in Places
  <2>1. place[t][f] \in Places
    BY DEF Types
  <2> QED
    BY <1>3, <1>4, <2>1 DEF Places
<1>7. In(s, "archive")' \subseteq In(s, "archive")
  BY <1>4 DEF In
<1> QED
  BY <1>3, <1>4, <1>5, <1>6, <1>7

LEMMA PurgeKeeps ==
    ASSUME SurveyInv, NEW s \in Surveys, purge(s)
    PROVE  SurveyInv'
<1>1. PICK dirs : place' = Removed(s, dirs)
  BY DEF purge, EmptyInbox
<1>2. /\ withdrawal[s] # "delete_node"
      /\ \E label \in {"archive", "done"} : withdrawal' = [withdrawal EXCEPT ![s] = label]
      /\ inbox' \in {inbox, inbox \ {s}} /\ archive' \in {archive, archive \ {s}}
      /\ processed' \in {processed, processed \ {s}}
      /\ manifest' \in {manifest, [manifest EXCEPT ![s] = "none"]}
      /\ UNCHANGED <<node, upload, current, size, pc, left, survey, listed, handled, staged,
                     overlapped, unconverted>>
  BY DEF purge, EmptyInbox, workerVars, history
<1>3. node[s] = "erased"
  BY <1>2 DEF SurveyInv, SurveyOK, UploadOK
<1>4. \A t \in Surveys : t # s => withdrawal'[t] = withdrawal[t]
  BY <1>2 DEF SurveyInv, Types
<1>5. Types'
  <2>1. withdrawal' \in [Surveys -> {"delete_node", "inbox", "archive", "done"}]
    BY <1>2 DEF SurveyInv, Types
  <2>2. inbox' \subseteq Surveys /\ archive' \subseteq Surveys /\ processed' \subseteq Surveys
    BY <1>2 DEF SurveyInv, Types
  <2>3. /\ place' = [t \in Surveys |-> [f \in Files(t) |-> place'[t][f]]]
        /\ \A t \in Surveys : \A f \in Files(t) : place'[t][f] \in Places
    BY <1>1, RemovedFiles DEF SurveyInv
  <2>4. UNCHANGED <<node, upload, current, size, pc, left, survey, overlapped, unconverted>>
    BY <1>2
  <2>5. manifest' = [t \in Surveys |-> manifest'[t]]
    BY <1>2 DEF SurveyInv, Types
  <2> QED
    BY <2>1, <2>2, <2>3, <2>4, <2>5 DEF SurveyInv, Types, Files
<1>6. HandOK'
  <2>1. survey # None /\ survey \notin overlapped => survey # s
    BY <1>3 DEF SurveyInv, HandOK
  <2>2. survey # None => survey \in Surveys
    BY DEF SurveyInv, Types
  <2> QED
    BY <1>1, <1>2, <2>1, <2>2, HandStays, RemovedFiles DEF SurveyInv
<1>7. ASSUME NEW t \in Surveys PROVE SurveyOK(t)'
  <2>1. CASE t # s
    BY <1>1, <1>2, <1>4, <2>1, Bystander, RemovedFiles DEF SurveyInv
  <2>2. CASE t = s
    BY <1>1, <1>2, <1>3, <2>2, Purged, RemovedFiles DEF SurveyInv
  <2> QED
    BY <2>1, <2>2
<1> QED
  BY <1>5, <1>6, <1>7 DEF SurveyInv

--------------------------------------------------------------------------------
(* The worker.                                                             *)

\* Steps of the worker that touch neither files nor records.
LEMMA WorkerAlone ==
    ASSUME SurveyInv, UNCHANGED <<serverVars, diskVars>>, staged \subseteq staged',
           overlapped \subseteq overlapped',
           \A t \in Surveys : In(t, "archive") \cap unconverted[t] \subseteq unconverted'[t]
    PROVE  \A t \in Surveys : SurveyOK(t)'
BY Bystander DEF SurveyInv, serverVars, diskVars

LEMMA NextSurveyTypes ==
    ASSUME SurveyInv, NextSurvey
    PROVE  pc' \in {"idle", "get_node"} /\ survey' = None /\ left' = left
BY DEF NextSurvey

LEMMA DrainKeeps ==
    ASSUME SurveyInv, drain
    PROVE  SurveyInv'
<1>1. survey' = None
  BY DEF drain, SurveyInv, Types, InHand
<1>2. Types'
  BY <1>1 DEF drain, SurveyInv, Types, Files, InHand, serverVars, diskVars, history
<1>3. \A t \in Surveys : SurveyOK(t)'
  BY WorkerAlone DEF drain, history
<1> QED
  BY <1>1, <1>2, <1>3, HandEmpty DEF SurveyInv

LEMMA GetNodeKeeps ==
    ASSUME SurveyInv, get_node
    PROVE  SurveyInv'
<1> USE SurveyAssumption
<1>1. PICK s \in left :
        /\ left' = left \ {s}
        /\ \/ Skip(s) \/ Take(s)
           \/ /\ node[s] # "live"
              /\ inbox' = inbox \ {s} /\ archive' = archive \ {s}
              /\ place' = Removed(s, {"inbox", "archive"})
              /\ processed' = processed \ {s}
              /\ manifest' = [manifest EXCEPT ![s] = "none"]
              /\ pc' \in {"idle", "get_node"}
              /\ UNCHANGED <<size, survey, overlapped>>
  BY DEF get_node
<1>2. /\ s \in Surveys /\ survey = None
      /\ UNCHANGED <<node, upload, current, withdrawal, listed, handled, staged, unconverted>>
  BY DEF get_node, serverVars, SurveyInv, Types, InHand
<1>5. CASE Skip(s)
  <2>1. pc' \in {"idle", "get_node"} /\ UNCHANGED <<diskVars, survey, overlapped>>
    BY <1>5 DEF Skip
  <2>2. Types'
    BY <1>1, <1>2, <2>1 DEF SurveyInv, Types, Files, InHand, diskVars
  <2>3. \A t \in Surveys : SurveyOK(t)'
    BY <1>2, <2>1, WorkerAlone DEF serverVars
  <2> QED
    BY <1>2, <2>1, <2>2, <2>3, HandEmpty DEF SurveyInv
<1>3. CASE Take(s)
  <2>1. /\ survey' = s /\ pc' = "iterdir" /\ node[s] = "live"
        /\ overlapped' = IF Uploading(s) THEN overlapped \cup {s} ELSE overlapped
        /\ UNCHANGED diskVars
    BY <1>3 DEF Take
  <2>2. Types'
    BY <1>1, <1>2, <2>1 DEF SurveyInv, Types, Files, InHand, diskVars
  <2>3. \A t \in Surveys : SurveyOK(t)'
    BY <1>2, <2>1, WorkerAlone DEF serverVars
  <2>4. HandOK'
    <3>1. SUFFICES ASSUME s \notin overlapped' PROVE upload[s] = "accepted"
      BY <1>2, <2>1 DEF HandOK
    <3>2. ~Uploading(s) /\ s \notin overlapped
      BY <2>1, <3>1
    <3>3. upload[s] # "create_node" /\ upload[s] # "failed"
      BY <1>2, <2>1, <3>2 DEF SurveyInv, SurveyOK, UploadOK, KeptOK
    <3>4. upload[s] \in Labels
      BY <1>2 DEF SurveyInv, Types
    <3> QED
      BY <3>2, <3>3, <3>4 DEF Uploading, Labels
  <2> QED
    BY <2>2, <2>3, <2>4 DEF SurveyInv
<1>4. CASE ~Skip(s) /\ ~Take(s)
  <2>1. /\ node[s] # "live"
        /\ inbox' = inbox \ {s} /\ archive' = archive \ {s}
        /\ place' = Removed(s, {"inbox", "archive"})
        /\ processed' = processed \ {s}
        /\ manifest' = [manifest EXCEPT ![s] = "none"]
        /\ pc' \in {"idle", "get_node"}
        /\ UNCHANGED <<size, survey, overlapped>>
    BY <1>1, <1>4
  <2>2. /\ \A t \in Surveys : t # s => place'[t] = place[t]
        /\ place' = [t \in Surveys |-> [f \in Files(t) |-> place'[t][f]]]
        /\ \A t \in Surveys : \A f \in Files(t) : place'[t][f] \in Places
        /\ In(s, "archive")' \subseteq In(s, "archive")
    BY <1>2, <2>1, RemovedFiles DEF SurveyInv
  <2>3. Types'
    <3>1. /\ manifest' = [t \in Surveys |-> manifest'[t]]
          /\ unconverted' = [t \in Surveys |-> unconverted'[t]]
      BY <1>2, <2>1 DEF SurveyInv, Types
    <3>2. /\ inbox' \subseteq Surveys /\ archive' \subseteq Surveys /\ processed' \subseteq Surveys
          /\ left' \subseteq Surveys
      BY <1>1, <2>1 DEF SurveyInv, Types
    <3>3. /\ UNCHANGED <<node, upload, current, withdrawal, size, survey, overlapped>>
          /\ pc' \in {"idle", "get_node"} /\ survey = None
      BY <1>2, <2>1
    <3> QED
      BY <2>2, <3>1, <3>2, <3>3 DEF SurveyInv, Types, Files, InHand
  <2>4. ASSUME NEW t \in Surveys PROVE SurveyOK(t)'
    <3>1. CASE t # s
      BY <1>2, <2>1, <2>2, <3>1, Bystander DEF SurveyInv
    <3>2. CASE t = s
      BY <1>2, <2>1, <2>2, <3>2, Purged DEF SurveyInv
    <3> QED
      BY <3>1, <3>2
  <2> QED
    BY <1>2, <2>1, <2>3, <2>4, HandEmpty DEF SurveyInv
<1> QED
  BY <1>1, <1>3, <1>4, <1>5

LEMMA IterdirKeeps ==
    ASSUME SurveyInv, iterdir
    PROVE  SurveyInv'
<1>1. UNCHANGED <<serverVars, diskVars, history>> /\ left' = left /\ survey \in Surveys
  BY DEF iterdir, NextSurvey, SurveyInv, Types, InHand
<1>2. \A t \in Surveys : SurveyOK(t)'
  BY <1>1, WorkerAlone DEF history
<1>3. CASE NextSurvey
  <2>1. Types'
    BY <1>1, <1>3 DEF NextSurvey, SurveyInv, Types, Files, InHand, serverVars, diskVars, history
  <2> QED
    BY <1>2, <1>3, <2>1, HandEmpty DEF SurveyInv, NextSurvey
<1>4. CASE listed' = In(survey, "inbox") /\ pc' = "stage" /\ UNCHANGED <<left, survey, handled>>
  <2>1. Types'
    BY <1>1, <1>4 DEF SurveyInv, Types, Files, InHand, serverVars, diskVars, history
  <2>2. HandOK'
    <3>1. SUFFICES ASSUME survey # None, survey \notin overlapped
                   PROVE  HandOK'
      BY <1>1, <1>4 DEF HandOK, history
    <3>2. upload[survey] = "accepted" /\ node[survey] = "live"
      BY <3>1 DEF SurveyInv, HandOK
    <3>3. In(survey, "inbox") \cup In(survey, "archive") = Files(survey)
      BY <1>1, <3>1, <3>2 DEF SurveyInv, SurveyOK, KeptOK
    <3>4. In(survey, "archive")' = In(survey, "archive")
      BY <1>1, <1>4 DEF In, diskVars
    <3> QED
      BY <1>1, <1>4, <3>2, <3>3, <3>4 DEF HandOK, serverVars
  <2> QED
    BY <1>2, <2>1, <2>2 DEF SurveyInv
<1> QED
  BY <1>3, <1>4 DEF iterdir

\* Every survey's inbox manifest is in one state.
LEMMA Manifests ==
    ASSUME SurveyInv
    PROVE  manifest = [t \in Surveys |-> manifest[t]]
BY DEF SurveyInv, Types

\* The worker lets go of its survey and changes nothing else but its manifest.
LEMMA GiveUpKeeps ==
    ASSUME SurveyInv, UNCHANGED <<serverVars, staged, overlapped, unconverted>>,
           UNCHANGED <<inbox, archive, place, size, processed>>,
           manifest' = [t \in Surveys |-> manifest'[t]],
           pc' \in {"idle", "get_node"}, survey' = None, left' \subseteq left
    PROVE  SurveyInv'
<1>1. Types'
  BY DEF SurveyInv, Types, Files, InHand, serverVars
<1>2. \A t \in Surveys : SurveyOK(t)'
  BY Bystander DEF SurveyInv, serverVars
<1> QED
  BY <1>1, <1>2, HandEmpty DEF SurveyInv

\* Of the rows of one time and phase the first is staged.
LEMMA FirstIsFresh ==
    ASSUME NEW rs, \A q \in rs : q[2] \in Nat /\ q[3] \in Nat, NEW r \in rs
    PROVE  \E q \in Fresh(rs) : Key(q) = Key(r)
<1> DEFINE same == {q \in rs : Key(q) = Key(r)}
           files == {q[2] : q \in same}
<1>1. r \in same /\ files \in SUBSET Nat /\ files # {}
  OBVIOUS
<1>2. PICK f \in files : \A g \in files : ~(g < f)
  <2> HIDE DEF files
  <2> QED
    BY <1>1, Least
<1> DEFINE chunks == {q[3] : q \in {p \in same : p[2] = f}}
<1>3. chunks \in SUBSET Nat /\ chunks # {}
  OBVIOUS
<1>4. PICK i \in chunks : \A j \in chunks : ~(j < i)
  <2> HIDE DEF chunks
  <2> QED
    BY <1>3, Least
<1>5. PICK q \in same : q[2] = f /\ q[3] = i
  OBVIOUS
<1>6. ASSUME NEW p \in rs, Key(p) = Key(q)
      PROVE  ~(p[2] < q[2] \/ (p[2] = q[2] /\ p[3] < q[3]))
  <2>1. p \in same /\ p[2] \in files /\ (p[2] = f => p[3] \in chunks)
    BY <1>5, <1>6
  <2> HIDE DEF same, files, chunks
  <2> QED
    BY <1>2, <1>4, <1>5, <2>1
<1> HIDE DEF files, chunks
<1>7. q \in Fresh(rs)
  BY <1>5, <1>6 DEF Fresh
<1> QED
  BY <1>5, <1>7

LEMMA RowsCounted ==
    ASSUME NEW s, NEW f \in Nat, NEW n, NEW r \in RowsIn(s, f, n)
    PROVE  r[2] \in Nat /\ r[3] \in Nat
<1>1. PICK i \in 1..n : r \in {<<s, f, i, k>> : k \in TimesAndPhases(<<s, f, i>>)}
  BY DEF RowsIn
<1>2. PICK k : r = <<s, f, i, k>>
  BY <1>1
<1> QED
  BY <1>2

\* What filter_new lets through stands for all the rows it was given.
LEMMA ParsedIsDone ==
    ASSUME SurveyInv, survey \in Surveys, NEW fs, fs \subseteq Files(survey), NEW failed,
           Parsed(fs, failed), UNCHANGED size
    PROVE  \A f \in fs : DoneWith(survey, f)'
<1> DEFINE rs == Rows(survey, fs \ failed)
<1>1. /\ staged' = staged \cup Fresh(rs) /\ survey' = survey
      /\ unconverted' = [unconverted EXCEPT ![survey] = (@ \ fs) \cup failed]
  BY DEF Parsed
<1>2. ASSUME NEW r \in rs PROVE r[2] \in Nat /\ r[3] \in Nat
  <2>1. PICK f \in fs \ failed : r \in RowsIn(survey, f, size[survey][f])
    BY <1>2 DEF Rows
  <2>2. f \in Nat
    BY DEF Files
  <2> QED
    BY <2>1, <2>2, RowsCounted
<1>3. \A r \in rs : \E q \in Fresh(rs) : Key(q) = Key(r)
  <2> HIDE DEF rs
  <2> QED
    BY <1>2, FirstIsFresh
<1>4. ASSUME NEW f \in fs PROVE DoneWith(survey, f)'
  <2>1. CASE f \in failed
    <3>1. f \in unconverted'[survey]
      BY <1>1, <2>1 DEF SurveyInv, Types
    <3> QED
      BY <1>1, <3>1 DEF DoneWith
  <2>2. CASE f \notin failed
    <3>1. RowsIn(survey, f, size[survey][f]) \subseteq rs
      BY <2>2 DEF Rows
    <3>2. Rows(survey, {f})' = RowsIn(survey, f, size[survey][f])
      BY <1>1 DEF Rows
    <3>3. RowsStaged(survey, f)'
      BY <1>1, <1>3, <3>1, <3>2 DEF RowsStaged, Key
    <3> QED
      BY <1>1, <3>3 DEF DoneWith
  <2> QED
    BY <2>1, <2>2
<1> QED
  BY <1>1, <1>4

LEMMA StageKeeps ==
    ASSUME SurveyInv, stage
    PROVE  SurveyInv'
<1>1. /\ UNCHANGED <<serverVars, diskVars, overlapped, left>> /\ survey \in Surveys
      /\ staged \subseteq staged' /\ pc = "stage"
  BY DEF stage, Parsed, NextSurvey, SurveyInv, Types, InHand, history
<1>3. CASE NextSurvey /\ UNCHANGED history
  BY <1>1, <1>3, GiveUpKeeps, Manifests DEF NextSurvey, history, diskVars
<1>4. CASE ~(NextSurvey /\ UNCHANGED history)
  <2>1. PICK fs \in {listed, listed \ Pqdif} : \E failed \in SUBSET (fs \cap Pqdif) :
          handled' = fs /\ Parsed(fs, failed)
    BY <1>4 DEF stage
  <2>2. PICK failed \in SUBSET (fs \cap Pqdif) : Parsed(fs, failed)
    BY <2>1
  <2>3. /\ pc' = "archive_dir" /\ UNCHANGED <<survey, listed>> /\ handled' = fs
        /\ unconverted' = [unconverted EXCEPT ![survey] = (@ \ fs) \cup failed]
    BY <2>1, <2>2 DEF Parsed
  <2>4. Types'
    <3>1. unconverted' = [t \in Surveys |-> unconverted'[t]]
      BY <2>3 DEF SurveyInv, Types
    <3>2. UNCHANGED <<node, upload, current, withdrawal, inbox, archive, place, size, processed,
                      manifest, left, survey, overlapped>>
      BY <1>1, <2>3 DEF serverVars, diskVars
    <3>3. pc' = "archive_dir"
      BY <2>3
    <3> QED
      BY <1>1, <3>1, <3>2, <3>3 DEF SurveyInv, Types, Files, InHand
  <2>5. fs \subseteq listed /\ listed \subseteq In(survey, "inbox") /\ fs \subseteq Files(survey)
    <3>1. listed \subseteq In(survey, "inbox")
      BY <1>4 DEF stage
    <3> QED
      BY <2>1, <3>1 DEF In
  <2>6. ASSUME NEW t \in Surveys
        PROVE  In(t, "archive") \cap unconverted[t] \subseteq unconverted'[t]
    <3>1. CASE t = survey
      <4>1. In(t, "archive") \cap fs = {}
        BY <2>5, <3>1 DEF In
      <4>2. unconverted'[t] = (unconverted[t] \ fs) \cup failed
        BY <2>3, <3>1 DEF SurveyInv, Types
      <4> QED
        BY <4>1, <4>2
    <3>2. CASE t # survey
      <4>1. unconverted'[t] = unconverted[t]
        BY <2>3, <3>2 DEF SurveyInv, Types
      <4> QED
        BY <4>1
    <3> QED
      BY <3>1, <3>2
  <2>7. \A t \in Surveys : SurveyOK(t)'
    BY <1>1, <2>6, WorkerAlone
  <2>8. HandOK'
    <3>1. \A f \in fs : DoneWith(survey, f)'
      BY <1>1, <2>2, <2>5, ParsedIsDone DEF diskVars
    <3>2. \A f \in handled' : DoneWith(survey, f)'
      BY <2>3, <3>1
    <3>3. In(survey, "archive")' = In(survey, "archive")
      BY <1>1, <2>3 DEF In, diskVars
    <3> QED
      BY <1>1, <2>3, <2>5, <3>2, <3>3 DEF SurveyInv, HandOK, serverVars
  <2> QED
    BY <2>4, <2>7, <2>8 DEF SurveyInv
<1> QED
  BY <1>3, <1>4

LEMMA ArchiveDirKeeps ==
    ASSUME SurveyInv, archive_dir
    PROVE  SurveyInv'
<1>1. /\ UNCHANGED <<node, upload, current, withdrawal, inbox, place, size, processed,
                     manifest, left, survey, listed, handled, staged, overlapped, unconverted>>
      /\ pc = "archive_dir" /\ pc' = "move" /\ archive' = archive \cup {survey}
  BY DEF archive_dir, serverVars, history
<1>2. survey \in Surveys
  BY <1>1 DEF SurveyInv, Types, InHand
<1>3. Types'
  BY <1>1, <1>2 DEF SurveyInv, Types, Files, InHand
<1>4. HandOK'
  <2>1. In(survey, "archive")' = In(survey, "archive")
    BY <1>1 DEF In
  <2>2. \A f : DoneWith(survey, f) => DoneWith(survey, f)'
    BY <1>1, DoneStays
  <2> QED
    BY <1>1, <2>1, <2>2 DEF SurveyInv, HandOK
<1>5. \A t \in Surveys : SurveyOK(t)'
  BY <1>1, Bystander DEF SurveyInv
<1> QED
  BY <1>3, <1>4, <1>5 DEF SurveyInv

LEMMA MoveKeeps ==
    ASSUME SurveyInv, move
    PROVE  SurveyInv'
<1>1. PICK f \in Waiting :
        \/ /\ place[survey][f] = "inbox" /\ survey \in archive
           /\ place' = [place EXCEPT ![survey][f] = "archive"]
           /\ UNCHANGED workerVars
        \/ NextSurvey /\ UNCHANGED place
  BY DEF move
<1>2. /\ UNCHANGED <<serverVars, inbox, archive, size, processed, manifest, staged, overlapped,
                     unconverted>>
      /\ pc = "move" /\ survey \in Surveys /\ survey # None
  BY SurveyAssumption DEF move, history, SurveyInv, Types, InHand
<1>3. CASE NextSurvey /\ UNCHANGED place
  BY <1>2, <1>3, GiveUpKeeps, NextSurveyTypes, Manifests
<1>4. CASE /\ place[survey][f] = "inbox" /\ survey \in archive
           /\ place' = [place EXCEPT ![survey][f] = "archive"]
           /\ UNCHANGED workerVars
  <2>1. /\ f \in Files(survey) => place'[survey][f] = "archive"
        /\ \A g \in Files(survey) : g # f => place'[survey][g] = place[survey][g]
        /\ \A t \in Surveys : t # survey => place'[t] = place[t]
        /\ place' = [t \in Surveys |-> [g \in Files(t) |-> place'[t][g]]]
    BY <1>2, <1>4 DEF SurveyInv, Types
  <2>2. Types'
    <3>1. ASSUME NEW t \in Surveys, NEW g \in Files(t)
          PROVE  place'[t][g] \in Places
      <4>1. place[t][g] \in Places
        BY DEF SurveyInv, Types
      <4> QED
        BY <2>1, <4>1 DEF Places
    <3>2. UNCHANGED <<node, upload, current, withdrawal, inbox, archive, size, processed, manifest,
                      pc, left, survey, overlapped, unconverted>>
      BY <1>2, <1>4 DEF serverVars, workerVars
    <3> QED
      BY <2>1, <3>1, <3>2 DEF SurveyInv, Types, Files
  <2>3. In(survey, "archive") \subseteq In(survey, "archive")'
    BY <1>4, <2>1 DEF In, workerVars
  <2>4. HandOK'
    <3>1. \A g : DoneWith(survey, g) => DoneWith(survey, g)'
      BY <1>2, <1>4, DoneStays DEF workerVars
    <3> QED
      BY <1>2, <1>4, <2>3, <3>1 DEF SurveyInv, HandOK, serverVars, workerVars
  <2>5. ASSUME NEW s \in Surveys, s = survey PROVE SurveyOK(s)'
    <3>1. UploadOK(s)'
      BY <1>2, <1>4 DEF SurveyInv, SurveyOK, UploadOK, serverVars, workerVars
    <3> SUFFICES ASSUME s \notin overlapped
                 PROVE  KeptOK(s)' /\ StagedOK(s)'
      BY <1>2, <1>4, <3>1 DEF SurveyOK, KeptOK, StagedOK, workerVars
    <3>2. /\ upload[s] = "accepted" /\ node[s] = "live"
          /\ handled \subseteq listed /\ listed \subseteq Files(s)
          /\ \A g \in handled : DoneWith(s, g)
      BY <1>2, <2>5 DEF SurveyInv, HandOK
    <3>3. f \in handled /\ f \in Files(s)
      BY <2>5, <3>2 DEF Waiting
    <3>4. KeptOK(s)'
      <4>1. In(s, "archive") \cup {f} = In(s, "archive")'
        BY <1>4, <2>1, <2>5, <3>3 DEF In, workerVars
      <4>2. In(s, "inbox") \ {f} = In(s, "inbox")'
        BY <1>4, <2>1, <2>5, <3>3 DEF In, workerVars
      <4>3. In(s, "archive") \subseteq Files(s)
        BY DEF In
      <4> QED
        BY <1>2, <1>4, <3>2, <3>3, <4>1, <4>2, <4>3
        DEF SurveyInv, SurveyOK, KeptOK, serverVars, workerVars, Labels
    <3>5. StagedOK(s)'
      <4>1. In(s, "archive")' \subseteq In(s, "archive") \cup {f}
        BY <1>4, <2>1, <2>5, <3>3 DEF In, workerVars
      <4>2. size[s][f] = Parts
        BY <1>2, <3>2, <3>3 DEF SurveyInv, SurveyOK, UploadOK
      <4>3. DoneWith(s, f)
        BY <3>2, <3>3
      <4>4. \A g : DoneWith(s, g) => DoneWith(s, g)'
        BY <1>2, DoneStays
      <4>5. \A g \in In(s, "archive") : size[s][g] = Parts /\ DoneWith(s, g)
        BY DEF SurveyInv, SurveyOK, StagedOK
      <4>6. \A g \in In(s, "archive")' : size[s][g] = Parts /\ DoneWith(s, g)'
        BY <4>1, <4>2, <4>3, <4>4, <4>5
      <4> QED
        BY <1>2, <4>6 DEF StagedOK
    <3> QED
      BY <3>1, <3>4, <3>5 DEF SurveyOK
  <2>6. ASSUME NEW t \in Surveys PROVE SurveyOK(t)'
    <3>1. CASE t # survey
      BY <1>2, <2>1, <3>1, Bystander DEF SurveyInv, serverVars
    <3>2. CASE t = survey
      BY <2>5, <3>2
    <3> QED
      BY <3>1, <3>2
  <2> QED
    BY <2>2, <2>4, <2>6 DEF SurveyInv
<1> QED
  BY <1>1, <1>3, <1>4

LEMMA FinishKeeps ==
    ASSUME SurveyInv, finish
    PROVE  SurveyInv'
<1>1. /\ UNCHANGED <<serverVars, staged, overlapped, unconverted>>
      /\ pc = "move" /\ survey \in Surveys /\ Waiting = {}
  BY DEF finish, history, SurveyInv, Types, InHand
<1>2. CASE NextSurvey /\ UNCHANGED diskVars
  BY <1>1, <1>2, GiveUpKeeps, NextSurveyTypes, Manifests DEF diskVars
<1>4. CASE /\ pc' = "rewrite"
           /\ UNCHANGED <<diskVars, left, survey, listed, handled>>
  <2>1. Types'
    BY <1>1, <1>4 DEF SurveyInv, Types, Files, InHand, serverVars, diskVars
  <2>2. \A t \in Surveys : SurveyOK(t)'
    BY <1>1, <1>4, WorkerAlone
  <2>3. HandOK'
    BY <1>1, <1>4 DEF SurveyInv, HandOK, serverVars
  <2> QED
    BY <2>1, <2>2, <2>3 DEF SurveyInv
<1>3. CASE NextSurvey /\ ~UNCHANGED diskVars /\ pc' # "rewrite"
  <2>1. /\ processed' = processed \cup {survey} /\ inbox' = inbox \ {survey}
        /\ place' = Removed(survey, {"inbox"}) /\ UNCHANGED <<archive, size>>
        /\ manifest' = [manifest EXCEPT ![survey] = "none"]
        /\ listed = handled
    BY <1>3 DEF finish, Complete, EmptyInbox
  <2>2. PICK s \in Surveys : s = survey
    BY <1>1
  <2>3. /\ \A t \in Surveys : t # s => place'[t] = place[t]
        /\ \A f \in Files(s) : place'[s][f] = IF place[s][f] \in {"inbox"} THEN "gone" ELSE place[s][f]
        /\ place' = [t \in Surveys |-> [f \in Files(t) |-> place'[t][f]]]
        /\ \A t \in Surveys : \A f \in Files(t) : place'[t][f] \in Places
    <3>1. place' = Removed(s, {"inbox"})
      BY <2>1, <2>2
    <3> QED
      BY <3>1, RemovedFiles DEF SurveyInv
  <2>4. UNCHANGED <<node, upload, current, withdrawal, archive, size, left, overlapped, unconverted>>
    BY <1>1, <1>3, <2>1 DEF serverVars, NextSurvey
  <2>5. Types'
    <3>1. pc' \in {"idle", "get_node"} /\ survey' = None
      BY <1>3 DEF NextSurvey
    <3>4. manifest' = [t \in Surveys |-> manifest'[t]]
      BY <2>1 DEF SurveyInv, Types
    <3>2. inbox' \subseteq Surveys /\ processed' \subseteq Surveys
      BY <1>1, <2>1 DEF SurveyInv, Types
    <3> QED
      BY <2>3, <2>4, <3>1, <3>2, <3>4 DEF SurveyInv, Types, Files, InHand
  <2>6. In(s, "archive")' = In(s, "archive")
    BY <2>3 DEF In
  <2>7. UploadOK(s)'
    BY <2>4 DEF SurveyInv, SurveyOK, UploadOK
  <2>8. StagedOK(s)'
    BY <1>1, <2>4, <2>6, StagedStays DEF SurveyInv, SurveyOK
  <2>9. KeptOK(s)'
    <3> SUFFICES ASSUME s \notin overlapped PROVE KeptOK(s)'
      BY <2>4 DEF KeptOK
    <3>1. /\ upload[s] = "accepted" /\ node[s] = "live" /\ listed \subseteq Files(s)
          /\ Files(s) \ listed \subseteq In(s, "archive")
      BY <1>1, <2>2, SurveyAssumption DEF SurveyInv, HandOK
    <3>2. listed \subseteq In(s, "archive")
      BY <1>1, <2>1, <2>2, <3>1 DEF Waiting, In
    <3>3. In(s, "archive")' = Files(s)
      BY <2>6, <3>1, <3>2 DEF In
    <3>4. In(s, "inbox")' \subseteq Files(s)
      BY DEF In
    <3> QED
      BY <2>4, <3>1, <3>3, <3>4 DEF KeptOK, Labels
  <2>10. ASSUME NEW t \in Surveys PROVE SurveyOK(t)'
    <3>1. CASE t # s
      BY <1>1, <2>1, <2>2, <2>3, <2>4, <3>1, Bystander DEF SurveyInv
    <3>2. CASE t = s
      BY <2>7, <2>8, <2>9, <3>2 DEF SurveyOK
    <3> QED
      BY <3>1, <3>2
  <2> QED
    BY <1>3, <2>5, <2>10, HandEmpty DEF SurveyInv, NextSurvey
<1> QED
  BY <1>1, <1>2, <1>3, <1>4 DEF finish, Complete, NextSurvey

LEMMA RewriteKeeps ==
    ASSUME SurveyInv, rewrite
    PROVE  SurveyInv'
<1>1. manifest' = [t \in Surveys |-> manifest'[t]]
  BY DEF rewrite, SurveyInv, Types
<1> QED
  BY <1>1, GiveUpKeeps, NextSurveyTypes DEF rewrite, history

LEMMA FailKeeps ==
    ASSUME SurveyInv, fail
    PROVE  SurveyInv'
<1>1. manifest' = [t \in Surveys |-> manifest'[t]]
  BY DEF fail, SurveyInv, Types
<1> QED
  BY <1>1, GiveUpKeeps DEF fail, NextSurvey

--------------------------------------------------------------------------------
(* The theorems.                                                           *)

LEMMA StepKeeps ==
    ASSUME SurveyInv, [Next]_vars
    PROVE  SurveyInv'
<1>1. CASE worker
  BY <1>1, DrainKeeps, GetNodeKeeps, IterdirKeeps, StageKeeps, ArchiveDirKeeps, MoveKeeps,
     FinishKeeps, RewriteKeeps DEF worker
<1>2. CASE fail
  BY <1>2, FailKeeps
<1>3. CASE \E s \in Surveys : create_node(s) \/ uploading(s) \/ withdraw(s) \/ purge(s)
  BY <1>3, CreateKeeps, MkdirKeeps, OpenKeeps, WriteKeeps, ManifestKeeps, WithdrawKeeps,
     PurgeKeeps DEF uploading
<1>4. CASE UNCHANGED vars
  <2>1. UNCHANGED <<serverVars, diskVars, workerVars, history>>
    BY <1>4 DEF vars
  <2>2. Types'
    BY <2>1 DEF SurveyInv, Types, Files, InHand, serverVars, diskVars, workerVars, history
  <2>3. HandOK'
    BY <2>1, HandStays DEF SurveyInv, serverVars, diskVars, workerVars, history
  <2>4. \A t \in Surveys : SurveyOK(t)'
    BY <2>1, WorkerAlone DEF history
  <2> QED
    BY <2>2, <2>3, <2>4 DEF SurveyInv
<1> QED
  BY <1>1, <1>2, <1>3, <1>4 DEF Next

\* Upload, worker and withdrawal keep the invariant from any start.
THEOREM SurveyInvariant == Spec => []SurveyInv
<1>1. SurveyInv /\ [Next]_vars => SurveyInv'
  BY StepKeeps
<1> QED
  BY InitInv, <1>1, PTL DEF Spec

\* What process_survey moves to the archive is complete and staged, unless it
\* met the upload or the withdrawal of the survey.
THEOREM ArchivedSurveysAreStaged == Spec => []ArchivedIsStaged
<1>1. SurveyInv => ArchivedIsStaged
  BY DEF SurveyInv, SurveyOK, StagedOK, DoneWith, ArchivedIsStaged
<1> QED
  BY SurveyInvariant, <1>1, PTL

\* No file of an accepted survey is lost between survey_upload, process_survey
\* and the archive, deaths of the worker and deferred files included.
THEOREM AcceptedSurveysAreKept == Spec => []AcceptedIsKept
<1>1. SurveyInv => AcceptedIsKept
  BY DEF SurveyInv, SurveyOK, KeptOK, AcceptedIsKept
<1> QED
  BY SurveyInvariant, <1>1, PTL

--------------------------------------------------------------------------------
(* A drain comes to its end.                                               *)

\* The steps process_survey may still take on the survey in hand, and the drain
\* to the next one: one for each file it has to move, if the archive is there to
\* take it.
SurveySteps ==
    CASE pc = "idle" -> 0
      [] pc = "get_node" -> 1
      [] pc = "rewrite" -> 2
      [] pc = "move" -> 3 + (IF survey \in archive THEN Cardinality(Waiting) ELSE 0)
      [] pc = "archive_dir" -> NFiles[survey] + 4
      [] pc = "stage" -> NFiles[survey] + 5
      [] pc = "iterdir" -> NFiles[survey] + 6

\* A file that its upload has not opened yet is in no directory.
Unopened(s, f) == \/ f > current[s]
                  \/ f = current[s] /\ upload[s] \in {"create_node", "mkdir", "open"}
NotOpened(s) == \A f \in Files(s) : Unopened(s, f) => place[s][f] = "nowhere"

\* A drain that looks for the next survey has one left; the files it handles are
\* of the survey it has in hand.
PassOK ==
    /\ pc = "get_node" => left # {}
    /\ pc \in {"stage", "archive_dir", "move"} => listed \subseteq Files(survey)
    /\ pc \in {"archive_dir", "move"} => handled \subseteq listed

PassInv == PassOK /\ \A s \in Surveys : NotOpened(s)

\* drain, process_survey: in the midst of a drain no survey joins it, each step
\* of the worker takes the next survey or brings the one in hand nearer to its
\* end, and no upload or withdrawal that goes on meanwhile sets it back.
DrainGoesOn ==
    pc # "idle" =>
        /\ left' \subseteq left
        /\ left' = left => /\ SurveySteps' <= SurveySteps
                           /\ worker => SurveySteps' < SurveySteps
DrainsEnd == [][DrainGoesOn]_vars

\* A step leaves unopened files where they are, if it opens none but its own.
LEMMA UnopenedStay ==
    ASSUME \A t \in Surveys : NotOpened(t),
           \A t \in Surveys : \A f \in Files(t) :
              Unopened(t, f)' => /\ Unopened(t, f)
                                 /\ place[t][f] = "nowhere" => place'[t][f] = "nowhere"
    PROVE  \A t \in Surveys : NotOpened(t)'
BY DEF NotOpened

\* A step of nobody's upload opens no file.
LEMMA NobodyOpens ==
    ASSUME \A t \in Surveys : NotOpened(t), UNCHANGED <<upload, current>>,
           \A t \in Surveys : \A f \in Files(t) :
              place[t][f] = "nowhere" => place'[t][f] = "nowhere"
    PROVE  \A t \in Surveys : NotOpened(t)'
BY UnopenedStay DEF Unopened

\* Neither rmtree nor a move touches a file that is in no directory.
LEMMA RemovedStay ==
    ASSUME Types, NEW s \in Surveys, NEW dirs, "nowhere" \notin dirs, place' = Removed(s, dirs)
    PROVE  \A t \in Surveys : \A f \in Files(t) :
              place[t][f] = "nowhere" => place'[t][f] = "nowhere"
<1>1. \A f \in Files(s) : place'[s][f] = IF place[s][f] \in dirs THEN "gone" ELSE place[s][f]
  BY RemovedFiles
<1>2. \A t \in Surveys : t # s => place'[t] = place[t]
  BY RemovedFiles
<1>3. ASSUME NEW t \in Surveys, NEW f \in Files(t), place[t][f] = "nowhere"
      PROVE  place'[t][f] = "nowhere"
  BY <1>1, <1>2, <1>3
<1> QED
  BY <1>3

\* A removal that leaves a directory alone leaves what is in it, and puts
\* nothing there.
LEMMA RemovedElsewhere ==
    ASSUME Types, NEW s \in Surveys, NEW dirs, "archive" \notin dirs, place' = Removed(s, dirs)
    PROVE  \A t \in Surveys : \A f \in Files(t) :
              place'[t][f] = "archive" <=> place[t][f] = "archive"
<1>1. \A f \in Files(s) : place'[s][f] = IF place[s][f] \in dirs THEN "gone" ELSE place[s][f]
  BY RemovedFiles
<1>2. \A t \in Surveys : t # s => place'[t] = place[t]
  BY RemovedFiles
<1>3. ASSUME NEW t \in Surveys, NEW f \in Files(t)
      PROVE  place'[t][f] = "archive" <=> place[t][f] = "archive"
  BY <1>1, <1>2
<1> QED
  BY <1>3

\* A file put in a directory is there, and the others are where they were.
LEMMA PutFile ==
    ASSUME Types, NEW s \in Surveys, NEW f, NEW dir,
           place' = [place EXCEPT ![s][f] = dir]
    PROVE  /\ f \in Files(s) => place'[s][f] = dir
           /\ \A t \in Surveys : \A g \in Files(t) :
                 t # s \/ g # f => place'[t][g] = place[t][g]
<1>1. place = [t \in Surveys |-> [g \in Files(t) |-> place[t][g]]]
  BY DEF Types
<1> QED
  BY <1>1

\* The steps of an upload.
LEMMA UploadOpens ==
    ASSUME SurveyInv, \A t \in Surveys : NotOpened(t), NEW s \in Surveys,
           create_node(s) \/ uploading(s)
    PROVE  \A t \in Surveys : NotOpened(t)'
<1>1. /\ current[s] \in Nat /\ upload \in [Surveys -> Labels] /\ current \in [Surveys -> Nat]
      /\ current[s] \in Files(s)
      /\ \A t \in Surveys : \A f \in Files(t) : f \in Nat
  BY SurveyAssumption DEF SurveyInv, Types, Files
<1>2. CASE create_node(s) \/ mkdir(s)
  <2>1. /\ UNCHANGED <<current, place>> /\ \A t \in Surveys : t # s => upload'[t] = upload[t]
        /\ upload[s] \in {"create_node", "mkdir"}
    BY <1>1, <1>2 DEF create_node, mkdir, UploadGoes, diskVars
  <2> QED
    BY <2>1, UnopenedStay DEF Unopened
<1>3. CASE open_file(s)
  <2>1. /\ UNCHANGED current /\ upload[s] = "open" /\ upload'[s] \in {"write", "failed"}
        /\ \A t \in Surveys : t # s => upload'[t] = upload[t]
    BY <1>1, <1>3 DEF open_file, UploadGoes
  <2>2. place' \in {place, [place EXCEPT ![s][current[s]] = "inbox"]}
    BY <1>3 DEF open_file
  <2>3. \A t \in Surveys : \A f \in Files(t) :
           t # s \/ f # current[s] => place'[t][f] = place[t][f]
    BY <2>2 DEF SurveyInv, Types
  <2> QED
    BY <1>1, <2>1, <2>3, UnopenedStay DEF Unopened
<1>4. CASE write_chunk(s)
  <2>1. UNCHANGED place /\ upload[s] = "write"
    BY <1>4 DEF write_chunk
  <2>2. \/ UNCHANGED <<upload, current>>
        \/ /\ upload' = [upload EXCEPT ![s] = "open"]
           /\ current' = [current EXCEPT ![s] = current[s] + 1]
        \/ /\ upload' = [upload EXCEPT ![s] = "manifest"]
           /\ current' = [current EXCEPT ![s] = current[s]]
    BY <1>4 DEF write_chunk, UploadGoes
  <2>3. /\ \A t \in Surveys : t # s => upload'[t] = upload[t] /\ current'[t] = current[t]
        /\ \/ upload'[s] = upload[s] /\ current'[s] = current[s]
           \/ upload'[s] = "open" /\ current'[s] = current[s] + 1
           \/ upload'[s] = "manifest" /\ current'[s] = current[s]
    BY <1>1, <2>2
  <2>4. ASSUME NEW f \in Files(s), Unopened(s, f)' PROVE Unopened(s, f)
    BY <1>1, <2>1, <2>3, <2>4 DEF Unopened
  <2>5. \A t \in Surveys : \A f \in Files(t) : Unopened(t, f)' => Unopened(t, f)
    BY <2>3, <2>4 DEF Unopened
  <2> QED
    BY <2>1, <2>5, UnopenedStay
<1>5. CASE write_manifest(s)
  <2>1. /\ UNCHANGED <<current, place>> /\ \A t \in Surveys : t # s => upload'[t] = upload[t]
        /\ upload'[s] \in {"accepted", "failed"}
    BY <1>1, <1>5 DEF write_manifest, UploadGoes, diskVars
  <2> QED
    BY <2>1, UnopenedStay DEF Unopened
<1> QED
  BY <1>2, <1>3, <1>4, <1>5 DEF uploading

\* The steps of withdrawals and of the worker.
LEMMA OthersOpenNone ==
    ASSUME SurveyInv, \A t \in Surveys : NotOpened(t),
           \/ \E s \in Surveys : withdraw(s) \/ purge(s)
           \/ worker \/ fail \/ UNCHANGED vars
    PROVE  \A t \in Surveys : NotOpened(t)'
<1>1. CASE UNCHANGED <<upload, current, place>>
  BY <1>1, NobodyOpens
<1>2. ASSUME NEW s \in Surveys, withdraw(s) PROVE UNCHANGED <<upload, current, place>>
  BY <1>2 DEF withdraw, diskVars
<1>3. ASSUME NEW s \in Surveys, purge(s) PROVE \A t \in Surveys : NotOpened(t)'
  <2>1. PICK dirs : place' = Removed(s, dirs) /\ "nowhere" \notin dirs
    BY <1>3 DEF purge, EmptyInbox
  <2>2. UNCHANGED <<upload, current>>
    BY <1>3 DEF purge
  <2> QED
    BY <2>1, <2>2, RemovedStay, NobodyOpens DEF SurveyInv
<1>4. CASE drain \/ iterdir \/ stage \/ archive_dir \/ rewrite \/ fail \/ UNCHANGED vars
  <2>1. UNCHANGED <<upload, current, place>>
    BY <1>4 DEF drain, iterdir, stage, archive_dir, rewrite, fail, vars, serverVars, diskVars
  <2> QED
    BY <1>1, <2>1
<1>5. CASE get_node
  <2>1. UNCHANGED <<upload, current>> /\ left \subseteq Surveys
    BY <1>5 DEF get_node, serverVars, SurveyInv, Types
  <2>2. PICK s \in Surveys : UNCHANGED place \/ place' = Removed(s, {"inbox", "archive"})
    BY <1>5, <2>1 DEF get_node, Take, Skip, diskVars
  <2> QED
    BY <1>1, <2>1, <2>2, RemovedStay, NobodyOpens DEF SurveyInv
<1>6. CASE move
  <2>1. UNCHANGED <<upload, current>> /\ survey \in Surveys
    BY <1>6 DEF move, serverVars, SurveyInv, Types, InHand
  <2>2. PICK f \in Waiting :
           \/ place[survey][f] = "inbox" /\ place' = [place EXCEPT ![survey][f] = "archive"]
           \/ UNCHANGED place
    BY <1>6 DEF move
  <2>3. \A t \in Surveys : \A g \in Files(t) :
           place[t][g] = "nowhere" => place'[t][g] = "nowhere"
    <3>1. CASE /\ place[survey][f] = "inbox"
               /\ place' = [place EXCEPT ![survey][f] = "archive"]
      <4>1. Types
        BY DEF SurveyInv
      <4>2. \A t \in Surveys : \A g \in Files(t) :
               t # survey \/ g # f => place'[t][g] = place[t][g]
        BY <2>1, <3>1, <4>1, PutFile
      <4> QED
        BY <3>1, <4>2
    <3>2. CASE UNCHANGED place
      BY <3>2
    <3> QED
      BY <2>2, <3>1, <3>2
  <2> QED
    BY <2>1, <2>3, NobodyOpens
<1>7. CASE finish
  <2>1. UNCHANGED <<upload, current>> /\ survey \in Surveys
    BY <1>7 DEF finish, serverVars, SurveyInv, Types, InHand
  <2>2. UNCHANGED place \/ place' = Removed(survey, {"inbox"})
    BY <1>7 DEF finish, Complete, EmptyInbox, diskVars
  <2> QED
    BY <1>1, <2>1, <2>2, RemovedStay, NobodyOpens DEF SurveyInv
<1> QED
  BY <1>1, <1>2, <1>3, <1>4, <1>5, <1>6, <1>7 DEF worker

\* What the drain has in hand stays well formed.
LEMMA PassKept ==
    ASSUME SurveyInv, PassOK, [Next]_vars
    PROVE  PassOK'
<1>1. CASE UNCHANGED workerVars
  BY <1>1 DEF PassOK, workerVars
<1>2. CASE NextSurvey
  BY <1>2 DEF NextSurvey, PassOK
<1>3. CASE drain
  BY <1>3 DEF drain, PassOK
<1>4. CASE get_node
  <2>1. PICK s \in left :
          /\ left' = left \ {s}
          /\ pc' = "iterdir" \/ (pc' = IF left = {s} THEN "idle" ELSE "get_node")
    BY <1>4 DEF get_node, Take, Skip
  <2> QED
    BY <2>1 DEF PassOK
<1>5. CASE iterdir /\ ~NextSurvey
  BY <1>5 DEF iterdir, PassOK, In
<1>6. CASE stage /\ ~NextSurvey
  BY <1>6 DEF stage, Parsed, PassOK
<1>7. CASE archive_dir
  BY <1>7 DEF archive_dir, PassOK
<1>8. CASE fail
  BY <1>2, <1>8 DEF fail, PassOK
<1>10. CASE finish /\ ~NextSurvey
  BY <1>10 DEF finish, Complete, PassOK
<1>9. ASSUME NEW s \in Surveys, create_node(s) \/ uploading(s) \/ withdraw(s) \/ purge(s)
      PROVE  UNCHANGED workerVars
  BY <1>9 DEF create_node, uploading, mkdir, open_file, write_chunk, write_manifest,
              withdraw, purge
<1> QED
  BY <1>1, <1>2, <1>3, <1>4, <1>5, <1>6, <1>7, <1>8, <1>9, <1>10
  DEF Next, worker, move, rewrite, vars

\* The files in hand can be counted.
LEMMA WaitingCounted ==
    ASSUME SurveyInv, PassOK, pc = "move"
    PROVE  /\ IsFiniteSet(Waiting) /\ Cardinality(Waiting) \in Nat
           /\ NFiles[survey] \in Nat /\ survey \in Surveys
<1>1. survey \in Surveys /\ Waiting \subseteq Files(survey)
  BY DEF SurveyInv, Types, InHand, PassOK, Waiting
<1>2. NFiles[survey] \in Nat
  BY <1>1, SurveyAssumption
<1>3. IsFiniteSet(Files(survey))
  BY <1>2, FS_Interval DEF Files
<1> QED
  BY <1>1, <1>2, <1>3, FS_Subset, FS_CardinalityType

\* So can the steps.
LEMMA StepsCounted ==
    ASSUME SurveyInv, PassOK
    PROVE  SurveySteps \in Nat /\ (pc # "idle" => SurveySteps > 0)
<1>1. pc \in InHand => NFiles[survey] \in Nat
  BY SurveyAssumption DEF SurveyInv, Types
<1>2. pc = "move" => Cardinality(Waiting) \in Nat
  BY WaitingCounted
<1>3. pc \in {"idle", "get_node"} \cup InHand
  BY DEF SurveyInv, Types
<1> QED
  BY <1>1, <1>2, <1>3 DEF SurveySteps, InHand

\* Giving a survey up, or being done with it, leaves the step to the next one.
LEMMA NextIsNearer ==
    ASSUME SurveyInv, PassOK, pc \in InHand, NextSurvey
    PROVE  left' = left /\ SurveySteps' \in Nat /\ SurveySteps' < SurveySteps
<1>1. left' = left /\ pc' \in {"idle", "get_node"}
  BY DEF NextSurvey
<1>2. SurveySteps' \in {0, 1}
  BY <1>1 DEF SurveySteps
<1>3. SurveySteps \in Nat /\ SurveySteps > 1
  <2>1. pc \in InHand => NFiles[survey] \in Nat
    BY SurveyAssumption DEF SurveyInv, Types
  <2>2. pc = "move" => Cardinality(Waiting) \in Nat
    BY WaitingCounted
  <2> QED
    BY <2>1, <2>2 DEF SurveySteps, InHand
<1> QED
  BY <1>1, <1>2, <1>3

\* Each step of the worker in a drain takes the next survey or brings the one in
\* hand nearer to its end.
LEMMA WorkerGoesOn ==
    ASSUME SurveyInv, PassInv, worker, pc # "idle"
    PROVE  /\ left' \subseteq left
           /\ left' = left => SurveySteps' \in Nat /\ SurveySteps' < SurveySteps
<1>0. PassOK
  BY DEF PassInv
<1>1. CASE get_node
  BY <1>1 DEF get_node
<1>2. CASE NextSurvey /\ ~get_node
  <2>1. pc \in InHand
    BY <1>2 DEF worker, drain, iterdir, stage, archive_dir, move, finish, rewrite, InHand
  <2> QED
    BY <1>0, <1>2, <2>1, NextIsNearer
<1>3. CASE (iterdir \/ stage \/ archive_dir) /\ ~NextSurvey
  <2>1. /\ survey' = survey /\ left' = left /\ survey \in Surveys
        /\ \/ pc = "iterdir" /\ pc' = "stage"
           \/ pc = "stage" /\ pc' = "archive_dir"
           \/ pc = "archive_dir" /\ pc' = "move"
    BY <1>3 DEF iterdir, stage, Parsed, archive_dir, SurveyInv, Types, InHand
  <2>2. NFiles[survey] \in Nat
    BY <2>1, SurveyAssumption
  <2>3. CASE pc \in {"iterdir", "stage"}
    BY <2>1, <2>2, <2>3 DEF SurveySteps
  <2>4. CASE pc = "archive_dir"
    <3>1. handled' = handled /\ handled \subseteq Files(survey)
      BY <1>0, <1>3, <2>4 DEF iterdir, stage, archive_dir, PassOK
    <3>2. Waiting' \subseteq Files(survey)
      BY <2>1, <3>1 DEF Waiting
    <3>3. IsFiniteSet(Files(survey)) /\ Cardinality(Files(survey)) = NFiles[survey]
      BY <2>2, FS_Interval DEF Files
    <3>4. Cardinality(Waiting') \in Nat /\ Cardinality(Waiting') <= NFiles[survey]
      BY <3>2, <3>3, FS_Subset, FS_CardinalityType
    <3>5. /\ SurveySteps = NFiles[survey] + 4
          /\ SurveySteps' \in {3, 3 + Cardinality(Waiting')}
      BY <2>1, <2>4 DEF SurveySteps
    <3> QED
      BY <2>1, <2>2, <3>4, <3>5
  <2> QED
    BY <2>1, <2>3, <2>4
<1>4. CASE move /\ ~NextSurvey
  <2>1. PICK f \in Waiting :
          /\ place[survey][f] = "inbox" /\ survey \in archive
          /\ place' = [place EXCEPT ![survey][f] = "archive"]
          /\ UNCHANGED <<workerVars, archive>>
    BY <1>4 DEF move
  <2>2. pc = "move" /\ survey \in Surveys /\ f \in Files(survey) /\ UNCHANGED <<pc, left, survey, handled>>
    BY <1>0, <1>4, <2>1 DEF move, SurveyInv, Types, InHand, PassOK, Waiting, workerVars
  <2>3. /\ place'[survey][f] = "archive"
        /\ \A g \in Files(survey) : g # f => place'[survey][g] = place[survey][g]
    BY <2>1, <2>2 DEF SurveyInv, Types
  <2>4. Waiting' = Waiting \ {f}
    BY <1>0, <2>2, <2>3 DEF Waiting, PassOK
  <2>5. Cardinality(Waiting') = Cardinality(Waiting) - 1 /\ Cardinality(Waiting) \in Nat
    BY <1>0, <2>1, <2>2, <2>4, WaitingCounted, FS_RemoveElement
  <2>6. SurveySteps = 3 + Cardinality(Waiting) /\ SurveySteps' = 3 + Cardinality(Waiting')
    BY <2>1, <2>2 DEF SurveySteps
  <2> QED
    BY <2>2, <2>5, <2>6
<1>5. CASE finish /\ ~NextSurvey
  <2>1. /\ pc = "move" /\ pc' = "rewrite" /\ left' = left /\ Waiting = {}
    BY <1>5 DEF finish, Complete
  <2>2. SurveySteps' = 2 /\ SurveySteps = 3
    BY <2>1, FS_EmptySet DEF SurveySteps
  <2> QED
    BY <2>1, <2>2
<1> QED
  BY <1>1, <1>2, <1>3, <1>4, <1>5 DEF worker, drain, rewrite

\* What uploads and withdrawals do meanwhile sets the survey in hand not back.
LEMMA ServerGoesOn ==
    ASSUME SurveyInv, PassInv, pc # "idle", NEW s \in Surveys,
           create_node(s) \/ uploading(s) \/ withdraw(s) \/ purge(s)
    PROVE  left' = left /\ SurveySteps' <= SurveySteps
<1>0. PassOK /\ \A t \in Surveys : NotOpened(t)
  BY DEF PassInv
<1>1. UNCHANGED <<pc, left, survey, listed, handled>>
  BY DEF create_node, uploading, mkdir, open_file, write_chunk, write_manifest, withdraw,
         purge, workerVars
<1>2. SurveySteps \in Nat
  BY <1>0, StepsCounted
<1>3. CASE pc # "move"
  <2>1. SurveySteps' = SurveySteps
    BY <1>1, <1>3 DEF SurveySteps
  <2> QED
    BY <1>1, <1>2, <2>1
<1>4. CASE pc = "move"
  <2>1. /\ survey \in Surveys /\ Cardinality(Waiting) \in Nat
        /\ handled \subseteq Files(survey)
    BY <1>0, <1>4, WaitingCounted DEF PassOK
  <2>2. \/ survey \notin archive'
        \/ survey \in archive /\ Waiting' = Waiting
    <3>1. CASE create_node(s) \/ mkdir(s) \/ write_chunk(s) \/ write_manifest(s) \/ withdraw(s)
      <4>1. UNCHANGED <<place, archive>>
        BY <3>1 DEF create_node, mkdir, write_chunk, write_manifest, withdraw, diskVars
      <4> QED
        BY <1>1, <4>1 DEF Waiting
    <3>2. CASE open_file(s)
      <4>1. UNCHANGED archive /\ upload[s] = "open" /\ current[s] \in Files(s)
        BY <3>2 DEF open_file, SurveyInv, Types
      <4>2. place[s][current[s]] = "nowhere"
        BY <1>0, <4>1 DEF NotOpened, Unopened
      <4>3. place' \in {place, [place EXCEPT ![s][current[s]] = "inbox"]}
        BY <3>2 DEF open_file
      <4>4. \A f \in Files(survey) :
               place'[survey][f] = "archive" <=> place[survey][f] = "archive"
        <5>1. CASE UNCHANGED place
          BY <5>1
        <5>2. CASE place' = [place EXCEPT ![s][current[s]] = "inbox"]
          <6>1. Types
            BY DEF SurveyInv
          <6>2. /\ place'[s][current[s]] = "inbox"
                /\ \A t \in Surveys : \A g \in Files(t) :
                      t # s \/ g # current[s] => place'[t][g] = place[t][g]
            BY <4>1, <5>2, <6>1, PutFile
          <6> QED
            BY <2>1, <4>2, <6>2
        <5> QED
          BY <4>3, <5>1, <5>2
      <4> QED
        BY <1>1, <2>1, <4>1, <4>4 DEF Waiting
    <3>3. CASE purge(s) /\ withdrawal[s] = "inbox"
      <4>1. UNCHANGED archive /\ place' = Removed(s, {"inbox"})
        BY <3>3 DEF purge, EmptyInbox
      <4>2. PICK dirs : "archive" \notin dirs /\ place' = Removed(s, dirs)
        BY <4>1
      <4>3. Types
        BY DEF SurveyInv
      <4>4. \A f \in Files(survey) :
               place'[survey][f] = "archive" <=> place[survey][f] = "archive"
        BY <2>1, <4>2, <4>3, RemovedElsewhere
      <4> QED
        BY <1>1, <2>1, <4>1, <4>4 DEF Waiting
    <3>4. CASE purge(s) /\ withdrawal[s] = "archive"
      <4>1. archive' = archive \ {s} /\ place' = Removed(s, {"archive"})
        BY <3>4 DEF purge
      <4>2. CASE survey = s
        BY <4>1, <4>2
      <4>3. CASE survey # s
        <5>0. PICK dirs : place' = Removed(s, dirs)
          BY <4>1
        <5>1. place'[survey] = place[survey]
          BY <2>1, <4>3, <5>0, RemovedFiles DEF SurveyInv
        <5> QED
          BY <1>1, <4>1, <5>1 DEF Waiting
      <4> QED
        BY <4>2, <4>3
    <3> QED
      BY <3>1, <3>2, <3>3, <3>4 DEF uploading, purge
  <2>3. SurveySteps' = 3 + (IF survey \in archive' THEN Cardinality(Waiting') ELSE 0)
    BY <1>1, <1>4 DEF SurveySteps
  <2>4. SurveySteps = 3 + (IF survey \in archive THEN Cardinality(Waiting) ELSE 0)
    BY <1>4 DEF SurveySteps
  <2>5. SurveySteps' <= SurveySteps
    BY <2>1, <2>2, <2>3, <2>4
  <2> QED
    BY <1>1, <2>5
<1> QED
  BY <1>3, <1>4

\* Every step.
LEMMA DrainStep ==
    ASSUME SurveyInv, PassInv, [Next]_vars
    PROVE  DrainGoesOn
<1> SUFFICES ASSUME pc # "idle"
             PROVE  /\ left' \subseteq left
                    /\ left' = left => /\ SurveySteps' <= SurveySteps
                                       /\ worker => SurveySteps' < SurveySteps
  BY DEF DrainGoesOn
<1>0. PassOK /\ SurveySteps \in Nat
  BY StepsCounted DEF PassInv
<1>1. CASE worker
  BY <1>0, <1>1, WorkerGoesOn
<1>2. CASE fail /\ ~worker
  <2>1. CASE NextSurvey /\ survey # None
    <3>1. pc \in InHand
      BY <2>1 DEF SurveyInv, Types
    <3>2. left' = left /\ SurveySteps' \in {0, 1}
      BY <2>1 DEF NextSurvey, SurveySteps
    <3>3. SurveySteps > 0
      BY <1>0, StepsCounted
    <3> QED
      BY <1>0, <1>2, <3>2, <3>3
  <2>2. CASE pc' = "idle" /\ left' = {}
    <3>1. SurveySteps' = 0
      BY <2>2 DEF SurveySteps
    <3> QED
      BY <1>0, <1>2, <2>2, <3>1
  <2> QED
    BY <1>2, <2>1, <2>2 DEF fail
<1>3. CASE ~worker /\ \E s \in Surveys : create_node(s) \/ uploading(s) \/ withdraw(s) \/ purge(s)
  BY <1>3, ServerGoesOn
<1>4. CASE ~worker /\ UNCHANGED vars
  <2>1. left' = left /\ SurveySteps' = SurveySteps
    BY <1>4 DEF vars, workerVars, diskVars, SurveySteps, Waiting
  <2> QED
    BY <1>0, <1>4, <2>1
<1> QED
  BY <1>1, <1>2, <1>3, <1>4 DEF Next

\* "One bad survey must not stop the rest": a drain takes each survey it found
\* once, and is done with it after NFiles + 6 steps at most, whatever the files
\* make the worker raise, and whatever uploads, withdrawals and purges of this
\* or of other surveys do meanwhile.
THEOREM DrainsAreShort == Spec => DrainsEnd
<1>1. Init => PassInv
  <2>1. ASSUME Init PROVE PassOK
    BY <2>1 DEF Init, PassOK
  <2>2. ASSUME Init, NEW s \in Surveys PROVE NotOpened(s)
    BY <2>2 DEF Init, NotOpened
  <2> QED
    BY <2>1, <2>2 DEF PassInv
<1>2. ASSUME SurveyInv, PassInv, [Next]_vars PROVE PassInv' /\ DrainGoesOn
  <2>1. PassOK'
    BY <1>2, PassKept DEF PassInv
  <2>2. \A t \in Surveys : NotOpened(t)'
    BY <1>2, UploadOpens, OthersOpenNone DEF PassInv, Next
  <2>3. DrainGoesOn
    BY <1>2, DrainStep
  <2> QED
    BY <2>1, <2>2, <2>3 DEF PassInv
<1> QED
  BY <1>1, <1>2, SurveyInvariant, PTL DEF Spec, DrainsEnd
====
