--------------------------- MODULE RuntimeProofs ---------------------------
(***************************************************************************)
(* The parts of the runtime that face files and the network, for every     *)
(* value of their constants.  Checkpoints: after a crash anywhere in       *)
(* checkpoint_save, a load accepts only what was saved, and outside phase  *)
(* 3 gives the last model whose save returned true.  The event loop:       *)
(* epoll and the events of a round never lead to a watcher that was freed. *)
(* The HTTP server: a connection is answered and closed once, and its      *)
(* handler sees the whole body, within the limits of the parser.  The      *)
(* reactor: one handler at a time serves a connection, and no event meets  *)
(* the slot of another one.                                                *)
(***************************************************************************)
EXTENDS Checkpoint, EventLoop, HttpServer, Reactor, FiniteSetTheorems, WellFoundedInduction, TLAPS

-----------------------------------------------------------------------------
(* Checkpoints: the files of a model.                                       *)

LEMMA PayloadFacts ==
  ASSUME NEW m \in CkModels
  PROVE  /\ Payload(m) \in Seq(CkModels \X (1 .. CkTensors))
         /\ Len(Payload(m)) = CkTensors
         /\ \A i \in 1 .. CkTensors : Payload(m)[i] = <<m, i>>
BY CkAssumption DEF Payload

(* A header in front of the tensors. *)
LEMMA WholeFacts ==
  ASSUME NEW m \in CkModels, NEW h
  PROVE  /\ Len(<<h>> \o Payload(m)) = CkTensors + 1
         /\ DOMAIN (<<h>> \o Payload(m)) = 1 .. CkTensors + 1
         /\ (<<h>> \o Payload(m))[1] = h
         /\ \A i \in 1 .. CkTensors : (<<h>> \o Payload(m))[i + 1] = <<m, i>>
         /\ Tail(<<h>> \o Payload(m)) = Payload(m)
         /\ <<h>> \o Payload(m) # <<>>
<1> DEFINE S == {h} \cup (CkModels \X (1 .. CkTensors))
           p == Payload(m)
           w == <<h>> \o p
<1>1. p \in Seq(S) /\ Len(p) = CkTensors /\ <<h>> \in Seq(S) /\ Len(<<h>>) = 1
  BY PayloadFacts
<1>2. CkTensors \in Nat
  BY CkAssumption
<1>3. \A i \in 1 .. CkTensors : p[i] = <<m, i>>
  BY PayloadFacts
<1> HIDE DEF p, S
<1>4. w \in Seq(S) /\ Len(w) = CkTensors + 1 /\ w[1] = h
  BY <1>1, <1>2
<1>5. \A i \in 1 .. CkTensors : w[i + 1] = p[i]
  BY <1>1, <1>2
<1>6. Tail(w) = p
  <2>1. Tail(w) \in Seq(S) /\ Len(Tail(w)) = CkTensors
    BY <1>2, <1>4
  <2>2. \A i \in 1 .. CkTensors : Tail(w)[i] = p[i]
    BY <1>2, <1>4, <1>5
  <2> HIDE DEF w
  <2> QED BY <1>1, <1>2, <2>1, <2>2
<1>7. w # <<>> /\ DOMAIN w = 1 .. CkTensors + 1
  BY <1>2, <1>4
<1> QED BY <1>3, <1>4, <1>5, <1>6, <1>7 DEF p

LEMMA PrefixEmpty ==
  ASSUME NEW whole
  PROVE  CkPrefix(<<>>, whole, 0)
<1>1. 0 <= CkTensors + 1 /\ 1 .. 0 = {}
  BY CkAssumption
<1> QED BY <1>1 DEF CkPrefix

LEMMA PrefixGrows ==
  ASSUME NEW m \in CkModels, NEW h, NEW file, NEW n \in Nat, n <= CkTensors,
         CkPrefix(file, <<h>> \o Payload(m), n)
  PROVE  CkPrefix(Append(file, (<<h>> \o Payload(m))[n + 1]), <<h>> \o Payload(m), n + 1)
<1> DEFINE w == <<h>> \o Payload(m)
           S == {w[i] : i \in DOMAIN w}
<1>1. DOMAIN w = 1 .. CkTensors + 1 /\ CkTensors \in Nat
  BY WholeFacts, CkAssumption
<1>2. file \in Seq(S) /\ Len(file) = n /\ \A i \in 1 .. n : file[i] = w[i]
  BY DEF CkPrefix
<1>3. n + 1 \in DOMAIN w
  BY <1>1
<1>4. w[n + 1] \in S
  BY <1>3
<1> HIDE DEF w, S
<1> DEFINE g == Append(file, w[n + 1])
<1>5. g \in Seq(S) /\ Len(g) = n + 1 /\ g[n + 1] = w[n + 1]
  BY <1>2, <1>4
<1>6. \A i \in 1 .. n : g[i] = file[i]
  BY <1>2, <1>4
<1>7. \A i \in 1 .. n + 1 : g[i] = w[i]
  <2>1. \A i \in 1 .. n + 1 : i \in 1 .. n \/ i = n + 1
    OBVIOUS
  <2> QED BY <1>2, <1>5, <1>6, <2>1
<1>8. n + 1 <= CkTensors + 1
  BY <1>1
<1> QED BY <1>5, <1>7, <1>8 DEF CkPrefix, S, w

LEMMA PrefixDone ==
  ASSUME NEW m \in CkModels, NEW h, NEW file, CkPrefix(file, <<h>> \o Payload(m), CkTensors + 1)
  PROVE  file = <<h>> \o Payload(m)
<1> DEFINE w == <<h>> \o Payload(m)
           S == {w[i] : i \in DOMAIN w}
<1>1. Len(w) = CkTensors + 1 /\ DOMAIN w = 1 .. CkTensors + 1 /\ CkTensors \in Nat
  BY WholeFacts, CkAssumption
<1>2. file \in Seq(S) /\ Len(file) = CkTensors + 1 /\ \A i \in 1 .. CkTensors + 1 : file[i] = w[i]
  BY DEF CkPrefix
<1>3. w \in Seq(S)
  <2>1. w \in Seq({h} \cup (CkModels \X (1 .. CkTensors)))
    BY PayloadFacts
  <2>2. \A i \in 1 .. CkTensors + 1 : w[i] \in S
    BY <1>1
  <2> HIDE DEF w, S
  <2> QED BY <1>1, <2>1, <2>2
<1> HIDE DEF w, S
<1>4. file = w
  BY <1>1, <1>2, <1>3
<1> QED BY <1>4 DEF w

(* What a load can return: the checksum accepts the tensors it was taken of. *)
LEMMA LoadedCases ==
  ASSUME ck_saved \subseteq CkModels, NEW file \in Seq(CkCells)
  PROVE  Loaded(file) = NoModel \/ \E m \in ck_saved : Loaded(file) = Payload(m)
<1>1. CASE file = NoFile \/ file = <<>>
  BY <1>1 DEF Loaded
<1>2. CASE file # NoFile /\ file # <<>>
  <2>1. file[1] \in CkCells
    BY <1>2
  <2>2. CASE file[1] \in CkModels \X (1 .. CkTensors)
    <3>1. file[1][1] # "header"
      BY <2>2, CkAssumption
    <3> QED BY <1>2, <3>1 DEF Loaded
  <2>3. ASSUME NEW m \in ck_saved, file[1] = Header(Payload(m))
        PROVE  Loaded(file) = NoModel \/ Loaded(file) = Payload(m)
    <3>1. file[1][1] = "header" /\ file[1][2] = Payload(m)
      BY <2>3 DEF Header
    <3> QED BY <1>2, <3>1 DEF Loaded, Verified
  <2> QED BY <2>1, <2>2, <2>3 DEF CkCells
<1> QED BY <1>1, <1>2

(* A whole file is loaded. *)
LEMMA LoadedWhole ==
  ASSUME NEW m \in CkModels
  PROVE  Loaded(WholePath(m)) = Payload(m)
<1> DEFINE w == WholePath(m)
<1>1. w[1] = Header(Payload(m)) /\ Tail(w) = Payload(m) /\ w # <<>>
  BY WholeFacts DEF WholePath
<1>2. w[1][1] = "header" /\ w[1][2] = Payload(m) /\ Len(w[1]) = 2
  BY <1>1 DEF Header
<1>3. Len(NoFile[1]) = 1
  BY DEF NoFile
<1>4. w # NoFile
  BY <1>2, <1>3
<1> QED BY <1>1, <1>2, <1>4 DEF Loaded, Verified

-----------------------------------------------------------------------------
(* Checkpoints: the steps.                                                  *)

LEMMA CkInitInv == CkInit => CkInv
<1>1. SUFFICES ASSUME CkInit PROVE CkInv
  OBVIOUS
<1>2. CkDurable /\ CkTypeOK /\ TmpInv /\ PathInv /\ ExposedInv
  BY <1>1 DEF CkInit, CkDurable, CkLoadedWasSaved, CkPathKeptOutsidePhase3, CkTypeOK, TmpInv, PathInv, ExposedInv
<1> QED BY <1>2 DEF CkInv

LEMMA CkSaveStep ==
  ASSUME CkInv, NEW m \in CkModels, CkSave(m)
  PROVE  CkInv'
<1>1. CkDurable /\ CkTypeOK /\ TmpInv /\ PathInv
  BY DEF CkInv
<1>2. /\ ck_pc = "idle" /\ ck_pc' = "tmp" /\ ck_model' = m /\ ck_pos' = 0 /\ ck_tmp' = <<>>
      /\ ck_saved' = ck_saved \cup {m} /\ ck_loaded' = NoModel
      /\ UNCHANGED <<ck_path, ck_digest, ck_true, ck_shortTmp, ck_shortPath, ck_exposed>>
  BY DEF CkSave
<1>3. CkTypeOK'
  BY <1>1, <1>2 DEF CkTypeOK
<1>4. TmpInv'
  BY <1>2, PrefixEmpty DEF TmpInv
<1>5. PathInv'
  <2>1. CkCells \subseteq CkCells'
    BY <1>2 DEF CkCells
  <2>2. \A s \in Seq(CkCells) : s \in Seq(CkCells')
    BY <2>1
  <2> QED BY <1>1, <1>2, <2>2 DEF PathInv
<1>6. ExposedInv'
  BY <1>2 DEF ExposedInv
<1>7. CkDurable'
  BY <1>1, <1>2 DEF CkDurable, CkPathKeptOutsidePhase3, CkLoadedWasSaved, Loaded, Verified
<1> QED BY <1>3, <1>4, <1>5, <1>6, <1>7 DEF CkInv

LEMMA CkWriteTmpStep ==
  ASSUME CkInv, CkWriteTmp
  PROVE  CkInv'
<1>1. CkDurable /\ CkTypeOK /\ TmpInv /\ PathInv /\ ExposedInv
  BY DEF CkInv
<1>2. /\ ck_pc = "tmp" /\ ck_pos <= CkTensors /\ ck_pos' = ck_pos + 1
      /\ ck_shortTmp => ck_shortTmp'
      /\ ~ck_shortTmp' => ck_tmp' = Append(ck_tmp, IF ck_pos = 0 THEN Header(<<>>) ELSE Payload(ck_model)[ck_pos])
      /\ ck_shortTmp' \in BOOLEAN
      /\ UNCHANGED <<ck_pc, ck_model, ck_path, ck_digest, ck_loaded, ck_calls,
                     ck_saved, ck_true, ck_shortPath, ck_exposed>>
  BY <1>1 DEF CkWriteTmp, CkTypeOK
<1>3. CkTypeOK'
  BY <1>1, <1>2 DEF CkTypeOK
<1>4. TmpInv'
  <2>1. SUFFICES ASSUME ~ck_shortTmp' PROVE CkPrefix(ck_tmp', WholeTmp(ck_model), ck_pos + 1)
    BY <1>2 DEF TmpInv
  <2>2. CkPrefix(ck_tmp, WholeTmp(ck_model), ck_pos) /\ ck_pos \in Nat /\ ck_model \in CkModels
    BY <1>1, <1>2, <2>1 DEF TmpInv, CkTypeOK
  <2>3. ck_tmp' = Append(ck_tmp, WholeTmp(ck_model)[ck_pos + 1])
    <3>1. CASE ck_pos = 0
      BY <1>2, <2>1, <2>2, <3>1, WholeFacts DEF WholeTmp
    <3>2. CASE ck_pos # 0
      <4>1. ck_pos \in 1 .. CkTensors
        BY <1>2, <2>2, <3>2, CkAssumption
      <4>2. Payload(ck_model)[ck_pos] = <<ck_model, ck_pos>>
        BY <2>2, <4>1, PayloadFacts
      <4>3. WholeTmp(ck_model)[ck_pos + 1] = <<ck_model, ck_pos>>
        BY <2>2, <4>1, WholeFacts DEF WholeTmp
      <4> QED BY <1>2, <2>1, <3>2, <4>2, <4>3
    <3> QED BY <3>1, <3>2
  <2> QED BY <1>2, <2>2, <2>3, PrefixGrows DEF WholeTmp
<1>5. PathInv' /\ ExposedInv'
  BY <1>1, <1>2 DEF PathInv, ExposedInv, CkCells, Loaded, Verified
<1>6. CkPathKeptOutsidePhase3'
  BY <1>1, <1>2 DEF CkDurable, CkPathKeptOutsidePhase3, Loaded, Verified
<1>7. CkLoadedWasSaved'
  BY <1>1, <1>2 DEF CkLoadedWasSaved, CkDurable
<1> QED BY <1>3, <1>4, <1>5, <1>6, <1>7 DEF CkInv, CkDurable

(* The payload of the temporary file is checksummed. *)
LEMMA CkChecksumStep ==
  ASSUME CkInv, CkChecksum
  PROVE  CkInv'
<1>1. CkDurable /\ CkTypeOK /\ TmpInv /\ PathInv /\ ExposedInv
  BY DEF CkInv
<1>2. /\ ck_pc = "tmp" /\ ck_pos > CkTensors /\ ck_digest' = Tail(ck_tmp) /\ ck_pc' = "open"
      /\ UNCHANGED <<ck_model, ck_pos, ck_tmp, ck_path, ck_loaded, ck_calls>>
      /\ UNCHANGED <<ck_saved, ck_true, ck_shortTmp, ck_shortPath, ck_exposed>>
  BY DEF CkChecksum, ckHistory
<1>3. CkTypeOK' /\ PathInv' /\ ExposedInv'
  BY <1>1, <1>2 DEF CkTypeOK, PathInv, ExposedInv, CkCells
<1>4. TmpInv'
  <2>1. SUFFICES ASSUME ~ck_shortTmp
                 PROVE  ck_tmp = WholeTmp(ck_model) /\ Tail(ck_tmp) = Payload(ck_model)
    BY <1>2 DEF TmpInv
  <2>2. CkPrefix(ck_tmp, WholeTmp(ck_model), ck_pos) /\ ck_pos \in Nat /\ ck_model \in CkModels
    BY <1>1, <1>2, <2>1 DEF TmpInv, CkTypeOK
  <2>3. ck_pos = CkTensors + 1
    BY <1>2, <2>2, CkAssumption DEF CkPrefix
  <2> QED BY <2>2, <2>3, PrefixDone, WholeFacts DEF WholeTmp
<1>5. CkDurable'
  BY <1>1, <1>2 DEF CkDurable, CkLoadedWasSaved, CkPathKeptOutsidePhase3, Loaded, Verified
<1> QED BY <1>3, <1>4, <1>5 DEF CkInv

(* A return of false and a crash. *)
LEMMA CkGiveUpStep ==
  ASSUME CkInv, NEW pc, CkGiveUp(pc)
  PROVE  CkInv'
<1>1. CkDurable /\ CkTypeOK /\ TmpInv /\ PathInv /\ ExposedInv
  BY DEF CkInv
<1>2. /\ ck_pc' = "idle"
      /\ UNCHANGED <<ck_model, ck_pos, ck_tmp, ck_path, ck_digest, ck_loaded, ck_calls>>
      /\ UNCHANGED <<ck_saved, ck_true, ck_shortTmp, ck_shortPath, ck_exposed>>
  BY DEF CkGiveUp, ckHistory
<1>3. CkTypeOK' /\ TmpInv' /\ PathInv' /\ ExposedInv'
  BY <1>1, <1>2 DEF CkTypeOK, TmpInv, PathInv, ExposedInv, CkCells
<1>4. CkDurable'
  BY <1>1, <1>2 DEF CkDurable, CkLoadedWasSaved, CkPathKeptOutsidePhase3, Loaded, Verified
<1> QED BY <1>3, <1>4 DEF CkInv

(* The file is truncated: from here it is exposed. *)
LEMMA CkOpenFinalStep ==
  ASSUME CkInv, CkOpenFinal
  PROVE  CkInv'
<1>1. CkDurable /\ CkTypeOK /\ TmpInv
  BY DEF CkInv
<1>2. /\ ck_pc = "open" /\ ck_path' = <<>> /\ ck_pos' = 0 /\ ck_pc' = "copy" /\ ck_exposed'
      /\ UNCHANGED <<ck_model, ck_tmp, ck_digest, ck_loaded, ck_calls>>
      /\ UNCHANGED <<ck_saved, ck_true, ck_shortTmp, ck_shortPath>> /\ ck_exposed' \in BOOLEAN
  BY DEF CkOpenFinal, ckHistory
<1>3. CkTypeOK' /\ TmpInv' /\ ExposedInv'
  BY <1>1, <1>2 DEF CkTypeOK, TmpInv, ExposedInv
<1>4. PathInv'
  <2>1. <<>> \in Seq(CkCells')
    OBVIOUS
  <2> QED BY <1>2, <2>1, PrefixEmpty DEF PathInv
<1>5. CkPathKeptOutsidePhase3'
  BY <1>2 DEF CkPathKeptOutsidePhase3
<1>6. CkLoadedWasSaved'
  BY <1>1, <1>2 DEF CkLoadedWasSaved, CkDurable
<1> QED BY <1>3, <1>4, <1>5, <1>6 DEF CkInv, CkDurable

LEMMA CkCopyStep ==
  ASSUME CkInv, CkCopy
  PROVE  CkInv'
<1>1. CkDurable /\ CkTypeOK /\ TmpInv /\ PathInv /\ ExposedInv
  BY DEF CkInv
<1>2. /\ ck_pc = "copy" /\ ck_pos < Len(ck_tmp) /\ ck_pos' = ck_pos + 1
      /\ \/ ck_path' = Append(ck_path, FinalCell) /\ ck_shortPath' = ck_shortPath
         \/ ck_shortPath' = TRUE /\ ck_path' = ck_path
      /\ UNCHANGED <<ck_pc, ck_model, ck_tmp, ck_digest, ck_loaded, ck_calls,
                     ck_saved, ck_true, ck_shortTmp, ck_exposed>>
  BY DEF CkCopy
<1>3. CkTypeOK' /\ TmpInv' /\ ExposedInv'
  <2>1. ck_pos' \in Nat
    BY <1>1, <1>2 DEF CkTypeOK
  <2>2. ck_shortPath' \in BOOLEAN
    <3>1. ck_shortPath \in BOOLEAN /\ TRUE \in BOOLEAN
      BY <1>1 DEF CkTypeOK
    <3>2. ck_shortPath' = ck_shortPath \/ ck_shortPath' = TRUE
      BY <1>2
    <3> QED BY <3>1, <3>2
  <2>3. CkTypeOK'
    BY <1>1, <1>2, <2>1, <2>2 DEF CkTypeOK
  <2> QED BY <1>1, <1>2, <2>3 DEF TmpInv, ExposedInv
<1>4. ASSUME ~ck_shortTmp
      PROVE  /\ ck_tmp = WholeTmp(ck_model) /\ ck_model \in CkModels /\ ck_pos \in Nat /\ ck_pos <= CkTensors
             /\ FinalCell = WholePath(ck_model)[ck_pos + 1] /\ FinalCell \in CkCells
  <2>1. /\ ck_tmp = WholeTmp(ck_model) /\ ck_digest = Payload(ck_model)
        /\ ck_model \in CkModels /\ ck_model \in ck_saved /\ ck_pos \in Nat
    BY <1>1, <1>2, <1>4 DEF TmpInv, CkTypeOK
  <2>2. ck_pos <= CkTensors
    <3>1. Len(ck_tmp) = CkTensors + 1
      BY <2>1, WholeFacts DEF WholeTmp
    <3> QED BY <1>2, <2>1, <3>1, CkAssumption
  <2>3. CASE ck_pos = 0
    <3>1. FinalCell = Header(Payload(ck_model))
      BY <2>1, <2>3 DEF FinalCell
    <3>2. WholePath(ck_model)[1] = Header(Payload(ck_model))
      BY <2>1, WholeFacts DEF WholePath
    <3> QED BY <2>1, <2>2, <2>3, <3>1, <3>2 DEF CkCells
  <2>4. CASE ck_pos # 0
    <3>1. ck_pos \in 1 .. CkTensors
      BY <2>1, <2>2, <2>4, CkAssumption
    <3>2. WholeTmp(ck_model)[ck_pos + 1] = <<ck_model, ck_pos>>
      BY <2>1, <3>1, WholeFacts DEF WholeTmp
    <3>3. WholePath(ck_model)[ck_pos + 1] = <<ck_model, ck_pos>>
      BY <2>1, <3>1, WholeFacts DEF WholePath
    <3>4. FinalCell = <<ck_model, ck_pos>>
      BY <2>1, <2>4, <3>2 DEF FinalCell
    <3> QED BY <2>1, <2>2, <3>1, <3>3, <3>4 DEF CkCells
  <2> QED BY <2>3, <2>4
<1>5. PathInv'
  <2>1. SUFFICES ASSUME ~ck_shortTmp
                 PROVE  /\ ck_path' \in Seq(CkCells)
                        /\ ~ck_shortPath' => CkPrefix(ck_path', WholePath(ck_model), ck_pos + 1)
    BY <1>2 DEF PathInv, CkCells
  <2>2. /\ ck_path \in Seq(CkCells)
        /\ ~ck_shortPath => CkPrefix(ck_path, WholePath(ck_model), ck_pos)
    BY <1>1, <1>2, <2>1 DEF PathInv
  <2>3. ck_path' \in Seq(CkCells)
    BY <1>2, <1>4, <2>1, <2>2
  <2>4. ASSUME ~ck_shortPath' PROVE CkPrefix(ck_path', WholePath(ck_model), ck_pos + 1)
    <3>1. ck_path' = Append(ck_path, WholePath(ck_model)[ck_pos + 1]) /\ ~ck_shortPath
      BY <1>2, <1>4, <2>1, <2>4
    <3> QED BY <1>4, <2>1, <2>2, <3>1, PrefixGrows DEF WholePath
  <2> QED BY <2>3, <2>4
<1>6. CkPathKeptOutsidePhase3'
  BY <1>1, <1>2 DEF CkPathKeptOutsidePhase3, ExposedInv
<1>7. CkLoadedWasSaved'
  BY <1>1, <1>2 DEF CkLoadedWasSaved, CkDurable
<1> QED BY <1>3, <1>5, <1>6, <1>7 DEF CkInv, CkDurable

(* The temporary file is removed: the file is whole by then. *)
LEMMA CkReturnTrueStep ==
  ASSUME CkInv, CkReturnTrue
  PROVE  CkInv'
<1>1. CkDurable /\ CkTypeOK /\ TmpInv /\ PathInv
  BY DEF CkInv
<1>2. /\ ck_pc = "copy" /\ ck_pos = Len(ck_tmp) /\ ck_tmp' = NoFile /\ ck_pc' = "idle"
      /\ ck_true' = Payload(ck_model) /\ ck_exposed' = FALSE
      /\ UNCHANGED <<ck_model, ck_pos, ck_path, ck_digest, ck_loaded, ck_calls,
                     ck_saved, ck_shortTmp, ck_shortPath>>
  BY DEF CkReturnTrue
<1>3. CkTypeOK' /\ TmpInv' /\ PathInv' /\ ExposedInv'
  BY <1>1, <1>2 DEF CkTypeOK, TmpInv, PathInv, ExposedInv, CkCells
<1>4. CkPathKeptOutsidePhase3'
  <2>1. SUFFICES ASSUME ~ck_shortTmp, ~ck_shortPath
                 PROVE  Loaded(ck_path) = Payload(ck_model)
    BY <1>2 DEF CkPathKeptOutsidePhase3, Loaded, Verified
  <2>2. /\ ck_tmp = WholeTmp(ck_model) /\ ck_model \in CkModels /\ ck_model \in ck_saved
        /\ CkPrefix(ck_path, WholePath(ck_model), ck_pos)
    BY <1>1, <1>2, <2>1 DEF TmpInv, PathInv, CkTypeOK
  <2>3. ck_pos = CkTensors + 1
    BY <1>2, <2>2, WholeFacts DEF WholeTmp
  <2>4. ck_path = WholePath(ck_model)
    BY <2>2, <2>3, PrefixDone DEF WholePath
  <2> QED BY <2>2, <2>4, LoadedWhole
<1>5. CkLoadedWasSaved'
  BY <1>1, <1>2 DEF CkLoadedWasSaved, CkDurable
<1> QED BY <1>3, <1>4, <1>5 DEF CkInv, CkDurable

LEMMA CkLoadStep ==
  ASSUME CkInv, CkLoad
  PROVE  CkInv'
<1>1. CkDurable /\ CkTypeOK /\ TmpInv /\ PathInv /\ ExposedInv
  BY DEF CkInv
<1>2. /\ ck_loaded' = Loaded(ck_path)
      /\ UNCHANGED <<ck_pc, ck_model, ck_pos, ck_tmp, ck_path, ck_digest, ck_calls>>
      /\ UNCHANGED <<ck_saved, ck_true, ck_shortTmp, ck_shortPath, ck_exposed>>
  BY DEF CkLoad, ckHistory
<1>3. CkTypeOK' /\ TmpInv' /\ PathInv' /\ ExposedInv'
  BY <1>1, <1>2 DEF CkTypeOK, TmpInv, PathInv, ExposedInv, CkCells, Loaded, Verified
<1>4. CkPathKeptOutsidePhase3'
  BY <1>1, <1>2 DEF CkDurable, CkPathKeptOutsidePhase3, Loaded, Verified
<1>5. CkLoadedWasSaved'
  <2>1. SUFFICES ASSUME Loaded(ck_path) # NoModel, ~ck_shortTmp
                 PROVE  \E m \in ck_saved : Loaded(ck_path) = Payload(m)
    BY <1>2 DEF CkLoadedWasSaved
  <2>2. ck_path # NoFile
    BY <2>1 DEF Loaded
  <2>3. ck_path \in Seq(CkCells) /\ ck_saved \subseteq CkModels
    BY <1>1, <2>1, <2>2 DEF PathInv, CkTypeOK
  <2> QED BY <2>1, <2>3, LoadedCases
<1> QED BY <1>3, <1>4, <1>5 DEF CkInv, CkDurable

LEMMA CkStepInv == CkInv /\ [CkNext]_ckVars => CkInv'
<1>1. SUFFICES ASSUME CkInv, [CkNext]_ckVars PROVE CkInv'
  OBVIOUS
<1>2. CASE UNCHANGED ckVars
  <2>1. CkDurable /\ CkTypeOK /\ TmpInv /\ PathInv /\ ExposedInv
    BY <1>1 DEF CkInv
  <2>2. CkDurable'
    BY <1>2, <2>1 DEF ckVars, CkDurable, CkLoadedWasSaved, CkPathKeptOutsidePhase3, Loaded, Verified
  <2>3. CkTypeOK' /\ TmpInv' /\ PathInv' /\ ExposedInv'
    BY <1>2, <2>1 DEF ckVars, CkTypeOK, TmpInv, PathInv, ExposedInv, CkCells, Loaded, Verified
  <2> QED BY <2>2, <2>3 DEF CkInv
<1>3. CASE \E m \in CkModels : CkSave(m)
  BY <1>1, <1>3, CkSaveStep
<1>4. CASE CkChecksumFails \/ CkOpenFails \/ CkCrash
  BY <1>1, <1>4, CkGiveUpStep DEF CkChecksumFails, CkOpenFails, CkCrash
<1> QED BY <1>1, <1>2, <1>3, <1>4, CkWriteTmpStep, CkChecksumStep, CkOpenFinalStep, CkCopyStep,
           CkReturnTrueStep, CkLoadStep DEF CkNext

(* The invariant of checkpoint_save holds in every reachable state: the    *)
(* digest in the header of path is that of a model that was saved, path    *)
(* changes only in phase 3, and path.tmp is removed only when path is      *)
(* whole.                                                                  *)
THEOREM CkInvariant == CkSpec => []CkInv
BY CkInitInv, CkStepInv, PTL DEF CkSpec

(* Checkpoints with a crash between any two writes: what checkpoint_load   *)
(* accepts is a whole model that was saved, unless a write to path.tmp     *)
(* failed; and it gives the last model of which a save returned true,      *)
(* except when a write failed, and from the moment phase 3 truncates path  *)
(* until a save returns true: in that window no file can be loaded.        *)
THEOREM CkIsDurable == CkSpec => []CkDurable
<1>1. CkInv => CkDurable
  BY DEF CkInv
<1> QED BY <1>1, CkInvariant, PTL

-----------------------------------------------------------------------------
(* Event loop: the list of watchers.                                        *)

(* A set of positive numbers that is not empty has a least element. *)
LEMMA SmallestExists ==
  ASSUME NEW S, S \subseteq Nat, S # {}
  PROVE  \E x \in S : \A y \in S : x <= y
<1> DEFINE R == {ss \in Nat \X Nat : ss[1] < ss[2]}
<1>1. IsWellFoundedOn(R, Nat)
  BY NatLessThanWellFounded, Zenon DEF OpToRel
<1> HIDE DEF R
<1>2. PICK x \in S : \A y \in S : ~(<<y, x>> \in R)
  BY <1>1, WFMin
<1>3. ASSUME NEW y \in S PROVE x <= y
  <2>1. <<y, x>> \in Nat \X Nat /\ ~(<<y, x>> \in R)
    BY <1>2
  <2>2. ~(y < x)
    BY <2>1 DEF R
  <2> QED BY <2>1, <2>2
<1> QED BY <1>3

LEMMA MinExists ==
  ASSUME NEW S, S \subseteq Nat, S # {}
  PROVE  Min(S) \in S
BY SmallestExists DEF Min

LEMMA WatcherAt ==
  ASSUME el_list \in Seq(ElWatcher), NEW i \in DOMAIN el_list
  PROVE  /\ el_list[i].id \in Nat \ {0} /\ el_list[i].fd \in ElFds /\ el_list[i].file \in Nat
<1>1. el_list[i] \in ElWatcher
  OBVIOUS
<1> QED BY <1>1 DEF ElWatcher

(* FirstOf finds a watcher of the descriptor if there is one. *)
LEMMA FirstOfFacts ==
  ASSUME el_list \in Seq(ElWatcher), NEW f \in ElFds
  PROVE  /\ FirstOf(f) # 0 => FirstOf(f) \in 1 .. Len(el_list) /\ el_list[FirstOf(f)].fd = f
         /\ FirstOf(f) = 0 => \A i \in DOMAIN el_list : el_list[i].fd # f
<1> DEFINE I == {i \in 1 .. Len(el_list) : el_list[i].fd = f}
<1>1. FirstOf(f) = IF I # {} THEN Min(I) ELSE 0
  BY DEF FirstOf, SelectInSeq
<1>2. I \subseteq Nat /\ 0 \notin I
  OBVIOUS
<1>3. CASE I # {}
  BY <1>1, <1>2, <1>3, MinExists
<1>4. CASE I = {}
  BY <1>1, <1>4
<1> QED BY <1>3, <1>4

LEMMA RemoveAtFacts ==
  ASSUME NEW S, NEW s \in Seq(S), NEW i \in 1 .. Len(s)
  PROVE  /\ RemoveAt(s, i) \in Seq(S)
         /\ DOMAIN RemoveAt(s, i) = 1 .. Len(s) - 1
         /\ \A j \in 1 .. Len(s) - 1 : RemoveAt(s, i)[j] = s[IF j < i THEN j ELSE j + 1]
<1> DEFINE a == SubSeq(s, 1, i - 1)
           b == SubSeq(s, i + 1, Len(s))
<1>1. a \in Seq(S) /\ Len(a) = i - 1 /\ \A j \in 1 .. i - 1 : a[j] = s[j]
  OBVIOUS
<1>2. b \in Seq(S) /\ Len(b) = Len(s) - i /\ \A j \in 1 .. Len(s) - i : b[j] = s[i + j]
  OBVIOUS
<1> HIDE DEF a, b
<1>3. a \o b \in Seq(S) /\ Len(a \o b) = Len(s) - 1
  <2>1. a \o b \in Seq(S) /\ Len(a \o b) = Len(a) + Len(b)
    <3>1. a \in Seq(S) /\ b \in Seq(S)
      BY <1>1, <1>2
    <3> QED BY <3>1
  <2>2. Len(s) \in Nat /\ i \in Int
    OBVIOUS
  <2>3. (i - 1) + (Len(s) - i) = Len(s) - 1
    BY <2>2
  <2> QED BY <1>1, <1>2, <2>1, <2>3
<1>4. ASSUME NEW j \in 1 .. Len(s) - 1 PROVE (a \o b)[j] = s[IF j < i THEN j ELSE j + 1]
  <2>1. CASE j < i
    BY <1>1, <1>2, <2>1
  <2>2. CASE ~(j < i)
    <3>1. (a \o b)[j] = b[j - (i - 1)]
      BY <1>1, <1>2, <2>2
    <3>2. j - (i - 1) \in 1 .. Len(s) - i /\ i + (j - (i - 1)) = j + 1
      BY <2>2
    <3> QED BY <1>2, <2>2, <3>1, <3>2
  <2> QED BY <2>1, <2>2
<1>5. RemoveAt(s, i) = a \o b
  BY DEF RemoveAt, a, b
<1>6. DOMAIN (a \o b) = 1 .. Len(s) - 1
  BY <1>3
<1> QED BY <1>3, <1>4, <1>5, <1>6

-----------------------------------------------------------------------------
(* Event loop: the steps.                                                   *)

LEMMA ElInitInv == ElInit => ElInv
<1>1. SUFFICES ASSUME ElInit PROVE ElInv
  OBVIOUS
<1>2. el_list = <<>> /\ el_batch = <<>> /\ DOMAIN el_list = {} /\ DOMAIN el_batch = {}
  BY <1>1 DEF ElInit
<1>3. el_pc = "idle" /\ \A f \in ElFds : el_reg[f] = 0
  BY <1>1 DEF ElInit
<1>4. ElTypeOK
  BY <1>1 DEF ElInit, ElTypeOK
<1>5. ElUnique /\ ElRound
  BY <1>2, <1>3 DEF ElUnique, ElRound
<1>6. ElSafe
  BY <1>2, <1>3 DEF ElSafe, ToSet
<1> QED BY <1>4, <1>5, <1>6 DEF ElInv

LEMMA ElOpenStep ==
  ASSUME ElInv, NEW f \in ElFds, ElOpen(f)
  PROVE  ElInv'
<1>1. ElSafe /\ ElTypeOK /\ ElUnique /\ ElRound
  BY DEF ElInv
<1>2. /\ el_file[f] = 0
      /\ el_file' = [el_file EXCEPT ![f] = el_opens + 1] /\ el_opens' = el_opens + 1
      /\ UNCHANGED <<el_pc, el_reg, el_list, el_n, el_batch, el_removed, el_leaky>>
  BY DEF ElOpen, watchVars
<1>3. el_opens' \in Nat /\ el_file' \in [ElFds -> Nat] /\ el_file'[f] # 0
      /\ \A g \in ElFds : g # f => el_file'[g] = el_file[g]
  BY <1>1, <1>2 DEF ElTypeOK
<1>4. ElTypeOK' /\ ElUnique'
  BY <1>1, <1>2, <1>3 DEF ElTypeOK, ElUnique
<1>5. ElRound'
  BY <1>1, <1>2, <1>3 DEF ElRound
<1>6. ElSafe'
  <2>1. \A g \in ElFds : el_reg[g] # 0 => el_file'[g] = el_file[g]
    BY <1>1, <1>2, <1>3 DEF ElRound
  <2> QED BY <1>1, <1>2, <2>1 DEF ElSafe, Allocated
<1> QED BY <1>4, <1>5, <1>6 DEF ElInv

LEMMA ElCloseStep ==
  ASSUME ElInv, NEW f \in ElFds, ElClose(f)
  PROVE  ElInv'
<1>1. ElSafe /\ ElTypeOK /\ ElUnique /\ ElRound
  BY DEF ElInv
<1>2. /\ el_file' = [el_file EXCEPT ![f] = 0] /\ el_reg' = [el_reg EXCEPT ![f] = 0]
      /\ el_leaky' = IF FirstOf(f) # 0 THEN el_leaky \cup {f} ELSE el_leaky
      /\ UNCHANGED <<el_pc, el_opens, el_list, el_n, el_batch, el_removed>>
  BY DEF ElClose
<1>3. /\ el_file' \in [ElFds -> Nat] /\ el_reg' \in [ElFds -> Nat] /\ el_reg'[f] = 0
      /\ \A g \in ElFds : g # f => el_file'[g] = el_file[g] /\ el_reg'[g] = el_reg[g]
  BY <1>1, <1>2 DEF ElTypeOK
<1>4. ElTypeOK' /\ ElUnique' /\ ElRound'
  BY <1>1, <1>2, <1>3 DEF ElTypeOK, ElUnique, ElRound
<1>5. ElSafe'
  <2>1. ASSUME NEW i \in DOMAIN el_list, el_list[i].fd \notin el_leaky'
        PROVE  el_reg'[el_list[i].fd] = el_list[i].id
    <3>1. el_list[i].fd \in ElFds /\ el_list[i].fd \notin el_leaky
      BY <1>1, <1>2, <2>1, WatcherAt DEF ElTypeOK
    <3>2. el_list[i].fd # f
      BY <1>1, <1>2, <2>1, <3>1, FirstOfFacts DEF ElTypeOK
    <3> QED BY <1>1, <1>3, <3>1, <3>2 DEF ElSafe
  <2>2. el_leaky \subseteq el_leaky'
    BY <1>2
  <2>3. ASSUME NEW g \in ElFds, el_reg'[g] # 0
        PROVE  \E i \in DOMAIN el_list : /\ el_list[i].id = el_reg'[g] /\ el_list[i].fd = g
                                         /\ g \notin el_leaky' => el_list[i].file = el_file'[g]
    <3>1. g # f /\ el_reg[g] # 0 /\ el_reg'[g] = el_reg[g] /\ el_file'[g] = el_file[g]
      BY <1>3, <2>3
    <3> QED BY <1>1, <2>2, <3>1 DEF ElSafe
  <2> QED BY <1>1, <1>2, <2>1, <2>3 DEF ElSafe, Allocated
<1> QED BY <1>4, <1>5 DEF ElInv

LEMMA ElAddStep ==
  ASSUME ElInv, NEW f \in ElFds, ElAdd(f)
  PROVE  ElInv'
<1>1. ElSafe /\ ElTypeOK /\ ElUnique /\ ElRound
  BY DEF ElInv
<1>2. /\ el_n' = el_n + 1
      /\ UNCHANGED <<el_pc, el_file, el_opens, el_batch, el_removed, el_leaky>>
  BY DEF ElAdd, fileVars
<1>3. el_n \in Nat /\ el_n' \in Nat /\ el_n < el_n'
  BY <1>1, <1>2 DEF ElTypeOK
<1>4. CASE UNCHANGED <<el_reg, el_list>>
  <2>1. ElTypeOK' /\ ElRound' /\ ElSafe'
    BY <1>1, <1>2, <1>3, <1>4 DEF ElTypeOK, ElRound, ElSafe, Allocated
  <2>2. \A i \in DOMAIN el_list : el_list[i].id <= el_n'
    <3>1. \A i \in DOMAIN el_list : el_list[i].id <= el_n /\ el_list[i].id \in Nat
      BY <1>1, WatcherAt DEF ElUnique, ElTypeOK
    <3> QED BY <1>3, <3>1
  <2> QED BY <1>1, <1>4, <2>1, <2>2 DEF ElInv, ElUnique
<1>5. CASE /\ el_file[f] # 0 /\ el_reg[f] = 0
           /\ el_reg' = [el_reg EXCEPT ![f] = el_n + 1]
           /\ el_list' = Append(el_list, [id |-> el_n + 1, fd |-> f, file |-> el_file[f]])
  <2> DEFINE w == [id |-> el_n + 1, fd |-> f, file |-> el_file[f]]
             n == Len(el_list)
  <2>1. w \in ElWatcher /\ w.id = el_n + 1 /\ w.fd = f /\ w.file = el_file[f]
    BY <1>1, <1>3 DEF ElTypeOK, ElWatcher
  <2> HIDE DEF w
  <2>2. /\ el_list \in Seq(ElWatcher) /\ n \in Nat /\ DOMAIN el_list = 1 .. n
    BY <1>1 DEF ElTypeOK
  <2>3. /\ el_list' \in Seq(ElWatcher) /\ DOMAIN el_list' = 1 .. n + 1
        /\ el_list'[n + 1] = w /\ \A i \in 1 .. n : el_list'[i] = el_list[i]
    BY <1>5, <2>1, <2>2 DEF w
  <2>4. \A i \in 1 .. n + 1 : i \in 1 .. n \/ i = n + 1
    BY <2>2
  <2>5. /\ \A i \in 1 .. n : /\ el_list[i].id \in Nat \ {0} /\ el_list[i].id <= el_n
                             /\ el_list[i].fd \in ElFds
    BY <1>1, <2>2, WatcherAt DEF ElUnique
  <2>6. /\ el_reg' \in [ElFds -> Nat] /\ el_reg'[f] = el_n + 1
        /\ \A g \in ElFds : g # f => el_reg'[g] = el_reg[g]
    BY <1>1, <1>3, <1>5 DEF ElTypeOK
  <2>7. ElTypeOK' /\ ElRound'
    BY <1>1, <1>2, <1>3, <1>5, <2>3, <2>6 DEF ElTypeOK, ElRound
  <2>8. ElUnique'
    <3>1. \A i \in 1 .. n + 1 : el_list'[i].id <= el_n'
      BY <1>2, <1>3, <2>1, <2>3, <2>4, <2>5
    <3>2. \A i \in 1 .. n : el_list'[i].id # el_list'[n + 1].id
      BY <1>3, <2>1, <2>3, <2>5
    <3>3. \A i, j \in 1 .. n : el_list'[i].id = el_list'[j].id => i = j
      BY <1>1, <2>2, <2>3 DEF ElUnique
    <3>4. \A i, j \in 1 .. n + 1 : el_list'[i].id = el_list'[j].id => i = j
      BY <2>4, <3>2, <3>3
    <3> QED BY <2>3, <3>1, <3>4 DEF ElUnique
  <2>9. ElSafe'
    <3>1. Allocated \subseteq Allocated'
      BY <2>2, <2>3 DEF Allocated
    <3>2. ASSUME NEW g \in ElFds, el_reg'[g] # 0
          PROVE  \E i \in 1 .. n + 1 : /\ el_list'[i].id = el_reg'[g] /\ el_list'[i].fd = g
                                       /\ g \notin el_leaky => el_list'[i].file = el_file[g]
      <4>1. CASE g = f
        <5>1. n + 1 \in 1 .. n + 1
          BY <2>2
        <5> QED BY <2>1, <2>3, <2>6, <4>1, <5>1
      <4>2. CASE g # f
        <5>1. PICK i \in 1 .. n : /\ el_list[i].id = el_reg[g] /\ el_list[i].fd = g
                                  /\ g \notin el_leaky => el_list[i].file = el_file[g]
          BY <1>1, <2>2, <2>6, <3>2, <4>2 DEF ElSafe
        <5>2. i \in 1 .. n + 1 /\ el_list'[i] = el_list[i]
          BY <2>2, <2>3
        <5> QED BY <2>6, <4>2, <5>1, <5>2
      <4> QED BY <4>1, <4>2
    <3>3. ASSUME NEW i \in 1 .. n + 1, el_list'[i].fd \notin el_leaky
          PROVE  el_reg'[el_list'[i].fd] = el_list'[i].id
      <4>1. CASE i = n + 1
        BY <2>1, <2>3, <2>6, <4>1
      <4>2. CASE i \in 1 .. n
        <5>1. el_reg[el_list[i].fd] = el_list[i].id
          BY <1>1, <2>2, <2>3, <3>3, <4>2 DEF ElSafe
        <5>2. el_list[i].fd # f
          BY <1>5, <2>5, <4>2, <5>1
        <5> QED BY <2>3, <2>5, <2>6, <4>2, <5>1, <5>2
      <4> QED BY <2>4, <4>1, <4>2
    <3>4. ToSet(el_batch) \subseteq Allocated' \cup el_removed
      BY <1>1, <3>1 DEF ElSafe
    <3> QED BY <1>2, <2>3, <3>2, <3>3, <3>4 DEF ElSafe
  <2> QED BY <2>7, <2>8, <2>9 DEF ElInv
<1> QED BY <1>4, <1>5 DEF ElAdd

LEMMA ElRemoveStep ==
  ASSUME ElInv, NEW f \in ElFds, ElRemove(f)
  PROVE  ElInv'
<1>1. ElSafe /\ ElTypeOK /\ ElUnique /\ ElRound
  BY DEF ElInv
<1>2. /\ el_pc \in {"idle", "callback"} /\ el_reg' = [el_reg EXCEPT ![f] = 0]
      /\ UNCHANGED <<el_pc, el_file, el_opens, el_n, el_batch, el_leaky>>
  BY DEF ElRemove, Called, fileVars
<1>3. /\ el_reg' \in [ElFds -> Nat] /\ el_reg'[f] = 0
      /\ \A g \in ElFds : g # f => el_reg'[g] = el_reg[g]
  BY <1>1, <1>2 DEF ElTypeOK
<1>4. el_list \in Seq(ElWatcher)
  BY <1>1 DEF ElTypeOK
<1>5. CASE FirstOf(f) = 0
  <2>1. UNCHANGED <<el_list, el_removed>>
    BY <1>5 DEF ElRemove
  <2>2. ElTypeOK' /\ ElUnique' /\ ElRound'
    BY <1>1, <1>2, <1>3, <2>1 DEF ElTypeOK, ElUnique, ElRound
  <2>3. ASSUME NEW i \in DOMAIN el_list, el_list[i].fd \notin el_leaky
        PROVE  el_reg'[el_list[i].fd] = el_list[i].id
    <3>1. el_list[i].fd # f /\ el_list[i].fd \in ElFds
      BY <1>4, <1>5, FirstOfFacts, WatcherAt
    <3> QED BY <1>1, <1>3, <2>3, <3>1 DEF ElSafe
  <2>4. ASSUME NEW g \in ElFds, el_reg'[g] # 0 PROVE el_reg[g] # 0 /\ el_reg'[g] = el_reg[g]
    BY <1>3, <2>4
  <2>5. ElSafe'
    BY <1>1, <1>2, <2>1, <2>3, <2>4 DEF ElSafe, Allocated
  <2> QED BY <2>2, <2>5 DEF ElInv
<1>6. CASE FirstOf(f) # 0
  <2> DEFINE k == FirstOf(f)
             n == Len(el_list)
             old(j) == IF j < k THEN j ELSE j + 1
             new(i) == IF i < k THEN i ELSE i - 1
  <2>1. el_list' = RemoveAt(el_list, k) /\ el_removed' = Noted(el_list[k].id)
    BY <1>6 DEF ElRemove
  <2>2. k \in 1 .. n /\ el_list[k].fd = f /\ n \in Nat /\ DOMAIN el_list = 1 .. n
    BY <1>4, <1>6, FirstOfFacts
  <2> HIDE DEF k
  <2>3. /\ el_list' \in Seq(ElWatcher) /\ DOMAIN el_list' = 1 .. n - 1
        /\ \A j \in 1 .. n - 1 : el_list'[j] = el_list[old(j)]
    BY <1>4, <2>1, <2>2, RemoveAtFacts
  <2> HIDE DEF n
  <2>4. \A j \in 1 .. n - 1 : old(j) \in 1 .. n /\ old(j) # k
    BY <2>2
  <2>5. \A i \in 1 .. n : i # k => new(i) \in 1 .. n - 1 /\ old(new(i)) = i
    BY <2>2
  <2>6. \A i, j \in 1 .. n - 1 : old(i) = old(j) => i = j
    BY <2>2
  <2> HIDE DEF old, new
  <2>7. ElTypeOK' /\ ElRound'
    BY <1>1, <1>2, <1>3, <2>3 DEF ElTypeOK, ElRound
  <2>8. ElUnique'
    <3>1. \A j \in 1 .. n - 1 : el_list'[j].id <= el_n
      BY <1>1, <2>2, <2>3, <2>4 DEF ElUnique
    <3>2. \A i, j \in 1 .. n - 1 : el_list'[i].id = el_list'[j].id => i = j
      BY <1>1, <2>2, <2>3, <2>4, <2>6 DEF ElUnique
    <3> QED BY <1>2, <2>3, <3>1, <3>2 DEF ElUnique
  <2>9. ASSUME NEW i \in 1 .. n, i # k
        PROVE  \E j \in 1 .. n - 1 : el_list'[j] = el_list[i]
    <3>1. new(i) \in 1 .. n - 1 /\ old(new(i)) = i
      BY <2>5, <2>9
    <3> QED BY <2>3, <3>1
  <2>10. ASSUME NEW g \in ElFds, el_reg'[g] # 0
         PROVE  \E j \in DOMAIN el_list' : /\ el_list'[j].id = el_reg'[g] /\ el_list'[j].fd = g
                                           /\ g \notin el_leaky' => el_list'[j].file = el_file'[g]
    <3>1. g # f /\ el_reg'[g] = el_reg[g]
      BY <1>3, <2>10
    <3>2. PICK i \in 1 .. n : /\ el_list[i].id = el_reg[g] /\ el_list[i].fd = g
                              /\ g \notin el_leaky => el_list[i].file = el_file[g]
      BY <1>1, <2>2, <2>10, <3>1 DEF ElSafe
    <3>3. i # k
      BY <2>2, <3>1, <3>2
    <3> QED BY <1>2, <2>3, <2>9, <3>1, <3>2, <3>3
  <2>11. ASSUME NEW j \in DOMAIN el_list', el_list'[j].fd \notin el_leaky'
         PROVE  el_reg'[el_list'[j].fd] = el_list'[j].id
    <3>1. old(j) \in 1 .. n /\ old(j) # k /\ el_list'[j] = el_list[old(j)]
      BY <2>3, <2>4
    <3>2. el_reg[el_list[old(j)].fd] = el_list[old(j)].id
      BY <1>1, <1>2, <2>2, <2>11, <3>1 DEF ElSafe
    <3>3. el_list[old(j)].fd # f
      <4>1. ASSUME el_list[old(j)].fd = f PROVE FALSE
        <5>1. f \notin el_leaky
          BY <1>2, <2>11, <3>1, <4>1
        <5>2. el_reg[f] = el_list[k].id
          BY <1>1, <2>2, <5>1 DEF ElSafe
        <5>3. el_list[old(j)].id = el_list[k].id
          BY <3>2, <4>1, <5>2
        <5> QED BY <1>1, <2>2, <3>1, <5>3 DEF ElUnique
      <4> QED BY <4>1
    <3>4. el_list[old(j)].fd \in ElFds
      BY <1>4, <2>2, <3>1, WatcherAt
    <3> QED BY <1>3, <3>1, <3>2, <3>3, <3>4
  <2>12. ToSet(el_batch') \subseteq Allocated' \cup el_removed'
    <3>1. CASE el_pc = "idle"
      <4>1. el_batch' = <<>>
        BY <1>1, <1>2, <3>1 DEF ElRound
      <4> QED BY <4>1 DEF ToSet
    <3>2. CASE el_pc = "callback"
      <4>1. el_removed' = el_removed \cup {el_list[k].id}
        BY <2>1, <3>2 DEF Noted
      <4>2. ASSUME NEW x \in Allocated PROVE x \in Allocated' \/ x = el_list[k].id
        <5>1. PICK i \in 1 .. n : x = el_list[i].id
          BY <2>2, <4>2 DEF Allocated
        <5>2. CASE i = k
          BY <5>1, <5>2
        <5>3. CASE i # k
          <6>1. PICK j \in 1 .. n - 1 : el_list'[j] = el_list[i]
            BY <2>9, <5>3
          <6> QED BY <2>3, <5>1, <6>1 DEF Allocated
        <5> QED BY <5>2, <5>3
      <4>3. ToSet(el_batch) \subseteq Allocated \cup el_removed
        BY <1>1 DEF ElSafe
      <4>4. ToSet(el_batch') = ToSet(el_batch)
        BY <1>2
      <4> QED BY <4>1, <4>2, <4>3, <4>4
    <3> QED BY <1>2, <3>1, <3>2
  <2>13. ElSafe'
    BY <2>10, <2>11, <2>12 DEF ElSafe
  <2> QED BY <2>7, <2>8, <2>13 DEF ElInv
<1> QED BY <1>5, <1>6

LEMMA ElModifyStep ==
  ASSUME ElInv, NEW f \in ElFds, ElModify(f)
  PROVE  ElInv'
<1>1. ElSafe /\ ElTypeOK /\ ElUnique /\ ElRound
  BY DEF ElInv
<1> DEFINE k == FirstOf(f)
<1>2. /\ k # 0 /\ el_reg' = [el_reg EXCEPT ![f] = IF el_reg[f] = 0 THEN 0 ELSE el_list[k].id]
      /\ UNCHANGED <<el_pc, el_file, el_opens, el_list, el_n, el_batch, el_removed, el_leaky>>
  BY DEF ElModify, fileVars
<1>3. el_list \in Seq(ElWatcher) /\ el_reg \in [ElFds -> Nat]
  BY <1>1 DEF ElTypeOK
<1>4. k \in DOMAIN el_list /\ el_list[k].fd = f
  BY <1>2, <1>3, FirstOfFacts
<1>5. el_list[k].id \in Nat \ {0}
  BY <1>3, <1>4, WatcherAt
<1> HIDE DEF k
<1>6. /\ el_reg' \in [ElFds -> Nat]
      /\ el_reg'[f] = (IF el_reg[f] = 0 THEN 0 ELSE el_list[k].id)
      /\ \A g \in ElFds : g # f => el_reg'[g] = el_reg[g]
  BY <1>2, <1>3, <1>5
<1>7. ElTypeOK' /\ ElUnique' /\ ElRound'
  <2>1. \A g \in ElFds : el_reg'[g] # 0 => el_reg[g] # 0
    BY <1>6
  <2> QED BY <1>1, <1>2, <1>6, <2>1 DEF ElTypeOK, ElUnique, ElRound
<1>8. CASE f \notin el_leaky
  <2>1. el_reg[f] = el_list[k].id
    BY <1>1, <1>4, <1>8 DEF ElSafe
  <2>2. el_reg'[f] = el_reg[f]
    BY <1>5, <1>6, <2>1
  <2>3. \A g \in ElFds : el_reg'[g] = el_reg[g]
    BY <1>6, <2>2
  <2>4. \A i \in DOMAIN el_list : el_list[i].fd \in ElFds
    BY <1>3, WatcherAt
  <2>5. ElSafe'
    BY <1>1, <1>2, <2>3, <2>4 DEF ElSafe, Allocated
  <2> QED BY <1>7, <2>5 DEF ElInv
<1>9. CASE f \in el_leaky
  <2>1. ASSUME NEW g \in ElFds, el_reg'[g] # 0
        PROVE  \E i \in DOMAIN el_list : /\ el_list[i].id = el_reg'[g] /\ el_list[i].fd = g
                                         /\ g \notin el_leaky => el_list[i].file = el_file[g]
    <3>1. CASE g = f
      <4>1. el_list[k].id = el_reg'[g] /\ el_list[k].fd = g /\ g \in el_leaky
        BY <1>4, <1>6, <1>9, <2>1, <3>1
      <4> QED BY <1>4, <4>1
    <3>2. CASE g # f
      BY <1>1, <1>6, <2>1, <3>2 DEF ElSafe
    <3> QED BY <3>1, <3>2
  <2>2. ASSUME NEW i \in DOMAIN el_list, el_list[i].fd \notin el_leaky
        PROVE  el_reg'[el_list[i].fd] = el_list[i].id
    <3>1. el_list[i].fd # f /\ el_list[i].fd \in ElFds
      BY <1>3, <1>9, <2>2, WatcherAt
    <3> QED BY <1>1, <1>6, <2>2, <3>1 DEF ElSafe
  <2>3. ElSafe'
    BY <1>1, <1>2, <2>1, <2>2 DEF ElSafe, Allocated
  <2> QED BY <1>7, <2>3 DEF ElInv
<1> QED BY <1>8, <1>9

LEMMA ElDestroyStep ==
  ASSUME ElInv, ElDestroy
  PROVE  ElInv'
<1>1. ElTypeOK /\ ElRound
  BY DEF ElInv
<1>2. /\ el_pc = "idle" /\ el_pc' = "gone" /\ el_reg' = [f \in ElFds |-> 0] /\ el_list' = <<>>
      /\ UNCHANGED <<el_file, el_opens, el_n, el_batch, el_removed, el_leaky>>
  BY DEF ElDestroy, fileVars
<1>3. el_batch' = <<>> /\ DOMAIN el_list' = {} /\ DOMAIN el_batch' = {}
  BY <1>1, <1>2 DEF ElRound
<1>4. ElTypeOK' /\ ElUnique' /\ ElRound'
  BY <1>1, <1>2, <1>3 DEF ElTypeOK, ElUnique, ElRound
<1>5. ElSafe'
  BY <1>2, <1>3 DEF ElSafe, ToSet
<1> QED BY <1>4, <1>5 DEF ElInv

(* The events that epoll returns name watchers of the list. *)
LEMMA ElWaitStep ==
  ASSUME ElInv, ElWait
  PROVE  ElInv'
<1>1. ElSafe /\ ElTypeOK /\ ElUnique /\ ElRound
  BY DEF ElInv
<1>2. /\ el_pc' = "dispatch"
      /\ UNCHANGED <<el_file, el_opens, el_reg, el_list, el_n, el_removed, el_leaky>>
  BY DEF ElWait, fileVars, watchVars
<1>3. PICK s \in SUBSET {f \in ElFds : el_reg[f] # 0} :
        \E b \in SetToSeqs(s) : el_batch' = [i \in DOMAIN b |-> el_reg[b[i]]]
  BY DEF ElWait
<1>4. PICK b \in SetToSeqs(s) : el_batch' = [i \in DOMAIN b |-> el_reg[b[i]]]
  BY <1>3
<1>5. Cardinality(s) \in Nat
  <2>1. s \subseteq ElFds
    OBVIOUS
  <2> QED BY <2>1, ElAssumption, FS_Subset, FS_CardinalityType
<1>6. b \in [1 .. Cardinality(s) -> s]
  BY DEF SetToSeqs
<1>7. \A i \in 1 .. Cardinality(s) : b[i] \in ElFds /\ el_reg[b[i]] # 0
  BY <1>6
<1>8. el_batch' = [i \in 1 .. Cardinality(s) |-> el_reg[b[i]]]
  BY <1>4, <1>6
<1>9. el_batch' \in Seq(Nat)
  <2>1. \A i \in 1 .. Cardinality(s) : el_reg[b[i]] \in Nat
    BY <1>1, <1>7 DEF ElTypeOK
  <2> QED BY <1>5, <1>8, <2>1
<1>10. ElTypeOK' /\ ElUnique' /\ ElRound'
  BY <1>1, <1>2, <1>9 DEF ElTypeOK, ElUnique, ElRound
<1>11. ToSet(el_batch') \subseteq Allocated
  <2>1. \A i \in 1 .. Cardinality(s) : el_reg[b[i]] \in Allocated
    BY <1>1, <1>7 DEF ElSafe, Allocated
  <2> QED BY <1>8, <2>1 DEF ToSet
<1>12. ElSafe'
  BY <1>1, <1>2, <1>11 DEF ElSafe, Allocated
<1> QED BY <1>10, <1>12 DEF ElInv

LEMMA ElDispatchStep ==
  ASSUME ElInv, ElDispatch
  PROVE  ElInv'
<1>1. ElSafe /\ ElTypeOK /\ ElUnique /\ ElRound
  BY DEF ElInv
<1>2. /\ el_batch # <<>> /\ el_batch' = Tail(el_batch) /\ el_pc' = "callback"
      /\ UNCHANGED <<el_file, el_opens, el_reg, el_list, el_n, el_removed, el_leaky>>
  BY DEF ElDispatch, fileVars, watchVars
<1>3. /\ el_batch' \in Seq(Nat) /\ \A i \in DOMAIN el_batch' : i + 1 \in DOMAIN el_batch /\ el_batch'[i] = el_batch[i + 1]
  BY <1>1, <1>2 DEF ElTypeOK
<1>4. ElTypeOK' /\ ElUnique' /\ ElRound'
  BY <1>1, <1>2, <1>3 DEF ElTypeOK, ElUnique, ElRound
<1>5. ToSet(el_batch') \subseteq ToSet(el_batch)
  BY <1>3 DEF ToSet
<1>6. ElSafe'
  BY <1>1, <1>2, <1>5 DEF ElSafe, Allocated
<1> QED BY <1>4, <1>6 DEF ElInv

LEMMA ElReturnStep ==
  ASSUME ElInv, ElReturn
  PROVE  ElInv'
<1>1. ElSafe /\ ElTypeOK /\ ElUnique /\ ElRound
  BY DEF ElInv
<1>2. /\ el_pc' = IF el_batch = <<>> THEN "idle" ELSE "dispatch"
      /\ el_removed' = IF el_batch = <<>> THEN {} ELSE el_removed
      /\ UNCHANGED <<el_file, el_opens, el_reg, el_list, el_n, el_batch, el_leaky>>
  BY DEF ElReturn, fileVars, watchVars
<1>3. ElTypeOK' /\ ElUnique' /\ ElRound'
  BY <1>1, <1>2 DEF ElTypeOK, ElUnique, ElRound
<1>4. ToSet(el_batch') \subseteq Allocated \cup el_removed'
  <2>1. CASE el_batch = <<>>
    BY <1>2, <2>1 DEF ToSet
  <2>2. CASE el_batch # <<>>
    BY <1>1, <1>2, <2>2 DEF ElSafe
  <2> QED BY <2>1, <2>2
<1>5. ElSafe'
  BY <1>1, <1>2, <1>4 DEF ElSafe, Allocated
<1> QED BY <1>3, <1>5 DEF ElInv

LEMMA ElStepInv == ElInv /\ [ElNext]_elVars => ElInv'
<1>1. SUFFICES ASSUME ElInv, [ElNext]_elVars PROVE ElInv'
  OBVIOUS
<1>2. CASE UNCHANGED elVars
  <2>1. UNCHANGED <<el_pc, el_file, el_opens, el_reg, el_list, el_n, el_batch, el_removed, el_leaky>>
    BY <1>2 DEF elVars, fileVars, watchVars
  <2> QED BY <1>1, <2>1 DEF ElInv, ElSafe, ElTypeOK, ElUnique, ElRound, Allocated
<1>3. CASE \E f \in ElFds : ElOpen(f) \/ ElClose(f) \/ ElAdd(f) \/ ElRemove(f) \/ ElModify(f)
  BY <1>1, <1>3, ElOpenStep, ElCloseStep, ElAddStep, ElRemoveStep, ElModifyStep
<1> QED BY <1>1, <1>2, <1>3, ElWaitStep, ElDispatchStep, ElReturnStep, ElDestroyStep DEF ElNext

(* The invariant of the event loop holds in every reachable state.         *)
THEOREM ElInvariant == ElSpec => []ElInv
BY ElInitInv, ElStepInv, PTL DEF ElSpec

(* The event loop is safe, with descriptors that are closed, opened again  *)
(* and registered from callbacks: epoll holds no pointer to a watcher that *)
(* was freed, an event that is left finds its watcher unless a callback of *)
(* its round removed it, and a descriptor that was not closed under its    *)
(* watcher has the watcher of its file.                                    *)
THEOREM ElIsSafe == ElSpec => []ElSafe
<1>1. ElInv => ElSafe
  BY DEF ElInv
<1> QED BY <1>1, ElInvariant, PTL

-----------------------------------------------------------------------------
(* The HTTP server: what is parsed from a buffer.                           *)

(* The length that counts is that of the first header, or what it is cut   *)
(* down to.                                                                *)
LEMMA BodyLengthFacts ==
  ASSUME NEW buf \in Seq(HtCells), NEW kept \in SUBSET HtDeclares(buf)
  PROVE  /\ BodyLength(kept, buf) \in Nat
         /\ \A i \in kept : (\A j \in kept : i <= j) =>
              /\ HtLengths[buf[i]] \in Nat
              /\ \/ BodyLength(kept, buf) = HtLengths[buf[i]]
                 \/ HtLengths[buf[i]] > HtMaxBody /\ BodyLength(kept, buf) = HtMaxBody
<1> DEFINE first == CHOOSE i \in kept : \A j \in kept : i <= j
<1>1. HtMaxBody \in Nat /\ \A i \in kept : i \in Nat /\ HtLengths[buf[i]] \in Nat
  BY HtAssumption DEF HtDeclares
<1>2. CASE kept = {}
  BY <1>2 DEF BodyLength
<1>3. CASE kept # {}
  <2>1. first \in kept /\ \A j \in kept : first <= j
    BY <1>1, <1>3, SmallestExists
  <2>2. BodyLength(kept, buf) =
          IF HtLengths[buf[first]] > HtMaxBody THEN HtMaxBody ELSE HtLengths[buf[first]]
    BY <1>3 DEF BodyLength
  <2> HIDE DEF first
  <2>3. \A i \in kept : (\A j \in kept : i <= j) => i = first
    BY <1>1, <2>1
  <2> QED BY <1>1, <2>1, <2>2, <2>3
<1> QED BY <1>2, <1>3

(* With the end of the headers in the buffer, the body that parse_request  *)
(* waits for is the declared one.                                          *)
LEMMA ParsedFacts ==
  ASSUME NEW buf \in Seq(HtCells)
  PROVE  /\ Parsed(buf).have \in Nat /\ Parsed(buf).want \in Nat
         /\ HasEnd(buf) /\ HtOrdered(buf) =>
              \A i \in HtDeclares(buf) :
                (\A j \in HtDeclares(buf) : i <= j) /\ i <= HtMaxHeaders + 1 =>
                  /\ HtLengths[buf[i]] \in Nat
                  /\ \/ Parsed(buf).want = HtLengths[buf[i]]
                     \/ HtLengths[buf[i]] > HtMaxBody /\ Parsed(buf).want = HtMaxBody
<1> DEFINE ends == {i \in DOMAIN buf : buf[i] = "end"}
           end == CHOOSE i \in ends : \A j \in ends : i <= j
           kept == {i \in HtDeclares(buf) : i < end /\ i <= HtMaxHeaders + 1}
<1>1. CASE ends = {}
  BY <1>1, HtAssumption DEF Parsed, HasEnd
<1>2. CASE ends # {}
  <2>1. ends \subseteq Nat
    OBVIOUS
  <2>2. end \in ends
    BY <1>2, <2>1, SmallestExists
  <2>3. end \in 1 .. Len(buf) /\ buf[end] = "end" /\ DOMAIN buf = 1 .. Len(buf)
    BY <2>2
  <2>4. Parsed(buf) = [have |-> Len(buf) - end, want |-> BodyLength(kept, buf)]
    BY <1>2 DEF Parsed
  <2>5. kept \in SUBSET HtDeclares(buf)
    OBVIOUS
  <2>6. ASSUME HtOrdered(buf), NEW i \in HtDeclares(buf), i <= HtMaxHeaders + 1 PROVE i \in kept
    <3>1. i < end
      BY <2>3, <2>6 DEF HtOrdered
    <3> QED BY <2>6, <3>1
  <2> HIDE DEF end, ends, kept
  <2>7. Parsed(buf).have \in Nat /\ Parsed(buf).want \in Nat
    BY <2>3, <2>4, <2>5, BodyLengthFacts
  <2>8. ASSUME HtOrdered(buf), NEW i \in HtDeclares(buf),
               \A j \in HtDeclares(buf) : i <= j, i <= HtMaxHeaders + 1
        PROVE  /\ HtLengths[buf[i]] \in Nat
               /\ \/ Parsed(buf).want = HtLengths[buf[i]]
                  \/ HtLengths[buf[i]] > HtMaxBody /\ Parsed(buf).want = HtMaxBody
    <3>1. i \in kept /\ \A j \in kept : i <= j
      BY <2>5, <2>6, <2>8
    <3> QED BY <2>4, <2>5, <3>1, BodyLengthFacts
  <2> QED BY <2>7, <2>8
<1> QED BY <1>1, <1>2

(* Cutting a request into segments keeps its order.                        *)
LEMMA SegmentFacts ==
  ASSUME NEW b \in Seq(HtCells), NEW w \in Seq(HtCells), NEW k \in 1 .. Len(w), HtOrdered(b \o w)
  PROVE  /\ b \o SubSeq(w, 1, k) \in Seq(HtCells) /\ SubSeq(w, k + 1, Len(w)) \in Seq(HtCells)
         /\ HtOrdered(b \o SubSeq(w, 1, k))
         /\ HtOrdered((b \o SubSeq(w, 1, k)) \o SubSeq(w, k + 1, Len(w)))
<1> DEFINE u == SubSeq(w, 1, k)
           v == SubSeq(w, k + 1, Len(w))
<1>1. u \in Seq(HtCells) /\ Len(u) = k /\ \A i \in 1 .. k : u[i] = w[i]
  OBVIOUS
<1>2. v \in Seq(HtCells) /\ Len(v) = Len(w) - k /\ \A i \in 1 .. Len(w) - k : v[i] = w[k + i]
  OBVIOUS
<1> HIDE DEF u, v
<1>3. b \o w \in Seq(HtCells) /\ DOMAIN (b \o w) = 1 .. Len(b) + Len(w)
  OBVIOUS
<1>4. b \o u \in Seq(HtCells) /\ Len(b \o u) = Len(b) + k
  BY <1>1
<1>5. \A i \in 1 .. Len(b) + k : i \in 1 .. Len(b) + Len(w) /\ (b \o u)[i] = (b \o w)[i]
  BY <1>1
<1>6. Len(b) \in Nat /\ Len(w) \in Nat /\ k \in Int /\ (Len(b) + k) + (Len(w) - k) = Len(b) + Len(w)
  OBVIOUS
<1>7. HtOrdered(b \o u)
  <2>1. DOMAIN (b \o u) = 1 .. Len(b) + k
    BY <1>4
  <2> SUFFICES ASSUME NEW i \in 1 .. Len(b) + k, NEW j \in 1 .. Len(b) + k,
                      (b \o u)[i] \in DOMAIN HtLengths, (b \o u)[j] = "end"
               PROVE  i < j
    BY <2>1 DEF HtOrdered, HtDeclares
  <2>2. /\ i \in DOMAIN (b \o w) /\ j \in DOMAIN (b \o w)
        /\ (b \o w)[i] \in DOMAIN HtLengths /\ (b \o w)[j] = "end"
    BY <1>3, <1>5
  <2> QED BY <2>2 DEF HtOrdered, HtDeclares
<1>8. (b \o u) \o v \in Seq(HtCells) /\ Len((b \o u) \o v) = Len(b) + Len(w)
  <2>1. (b \o u) \o v \in Seq(HtCells) /\ Len((b \o u) \o v) = Len(b \o u) + Len(v)
    <3> DEFINE x == b \o u
    <3>1. x \in Seq(HtCells) /\ v \in Seq(HtCells)
      BY <1>2, <1>4
    <3> HIDE DEF x
    <3>2. x \o v \in Seq(HtCells) /\ Len(x \o v) = Len(x) + Len(v)
      BY <3>1
    <3> QED BY <3>2 DEF x
  <2> QED BY <1>6, <1>2, <1>4, <2>1
<1>9. ASSUME NEW i \in 1 .. Len(b) + Len(w) PROVE ((b \o u) \o v)[i] = (b \o w)[i]
  <2>1. CASE i <= Len(b) + k
    BY <1>2, <1>4, <1>5, <2>1
  <2>2. CASE i > Len(b) + k
    <3>1. ((b \o u) \o v)[i] = v[i - (Len(b) + k)]
      BY <1>2, <1>4, <2>2
    <3>2. (b \o w)[i] = w[i - Len(b)]
      BY <2>2
    <3>3. i - (Len(b) + k) \in 1 .. Len(w) - k /\ k + (i - (Len(b) + k)) = i - Len(b)
      BY <2>2
    <3> QED BY <1>2, <3>1, <3>2, <3>3
  <2>3. i <= Len(b) + k \/ i > Len(b) + k
    BY <1>6
  <2> QED BY <2>1, <2>2, <2>3
<1>10. HtOrdered((b \o u) \o v)
  <2>1. DOMAIN ((b \o u) \o v) = DOMAIN (b \o w)
    BY <1>3, <1>8
  <2>2. \A i \in DOMAIN (b \o w) : ((b \o u) \o v)[i] = (b \o w)[i]
    BY <1>3, <1>9
  <2>3. HtDeclares((b \o u) \o v) = HtDeclares(b \o w)
    BY <2>1, <2>2 DEF HtDeclares
  <2> QED BY <2>1, <2>2, <2>3 DEF HtOrdered
<1> QED BY <1>1, <1>2, <1>4, <1>7, <1>10 DEF u, v

-----------------------------------------------------------------------------
(* The HTTP server: the inductive invariant.                                *)

(* A step of one connection leaves the others alone. *)
HtOthersKept(c) ==
    \A d \in HtConns \ {c} :
      /\ ht_pc'[d] = ht_pc[d] /\ ht_wire'[d] = ht_wire[d] /\ ht_buf'[d] = ht_buf[d]
      /\ ht_body'[d] = ht_body[d] /\ ht_want'[d] = ht_want[d] /\ ht_mw'[d] = ht_mw[d]
      /\ ht_status'[d] = ht_status[d] /\ ht_replies'[d] = ht_replies[d]
      /\ ht_closes'[d] = ht_closes[d] /\ ht_whole'[d] = ht_whole[d]
      /\ ht_rejected'[d] = ht_rejected[d] /\ ht_seen'[d] = ht_seen[d]

HtConnInv(c) == HtHeadInv(c) /\ HtBodyInv(c) /\ HtOutInv(c)

LEMMA HtFrame ==
  ASSUME HtInv, NEW c \in HtConns, HtTypeOK', HtOthersKept(c), HtConnInv(c)'
  PROVE  HtInv'
<1>1. ASSUME NEW d \in HtConns \ {c} PROVE HtConnInv(d)'
  <2>1. HtHeadInv(d) /\ HtBodyInv(d) /\ HtOutInv(d)
    BY DEF HtInv
  <2>2. HtHeadInv(d)'
    BY <2>1 DEF HtHeadInv, HtOthersKept
  <2>3. HtBodyInv(d)'
    BY <2>1 DEF HtBodyInv, HtOthersKept
  <2>4. HtOutInv(d)'
    BY <2>1 DEF HtOutInv, HtOthersKept
  <2> QED BY <2>2, <2>3, <2>4 DEF HtConnInv
<1> QED BY <1>1 DEF HtInv, HtConnInv

LEMMA HtInitInv == HtInit => HtInv
<1>1. SUFFICES ASSUME HtInit PROVE HtInv
  OBVIOUS
<1>2. HtTypeOK
  BY <1>1, HtAssumption DEF HtInit, HtTypeOK, NotCalled
<1>3. ASSUME NEW c \in HtConns PROVE HtHeadInv(c)
  <2>1. ht_wire[c] \in Seq(HtCells) /\ HtOrdered(ht_wire[c])
    BY <1>1, HtAssumption DEF HtInit
  <2>2. <<>> \o ht_wire[c] = ht_wire[c]
    BY <2>1
  <2>3. HasEnd(<<>>) = FALSE /\ HtOrdered(<<>>)
    BY DEF HasEnd, HtOrdered, HtDeclares
  <2>4. ht_buf[c] = <<>> /\ ht_whole[c] = FALSE
    BY <1>1 DEF HtInit
  <2> QED BY <2>1, <2>2, <2>3, <2>4 DEF HtHeadInv
<1>4. ASSUME NEW c \in HtConns PROVE HtBodyInv(c) /\ HtOutInv(c)
  BY <1>1 DEF HtInit, HtBodyInv, HtOutInv
<1> QED BY <1>2, <1>3, <1>4 DEF HtInv

LEMMA HtAcceptStep ==
  ASSUME HtInv, NEW c \in HtConns, HtAccept(c)
  PROVE  HtInv'
<1>1. HtTypeOK /\ HtHeadInv(c) /\ HtBodyInv(c) /\ HtOutInv(c)
  BY DEF HtInv
<1>2. HtTypeOK'
  BY <1>1 DEF HtAccept, HtGo, HtTypeOK
<1>3. HtOthersKept(c)
  BY <1>1 DEF HtAccept, HtGo, HtOthersKept, HtTypeOK
<1>4. HtHeadInv(c)'
  BY <1>1 DEF HtAccept, HtGo, HtHeadInv, HtTypeOK
<1>5. HtBodyInv(c)'
  BY <1>1 DEF HtAccept, HtGo, HtBodyInv, HtOutInv, HtTypeOK
<1>6. HtOutInv(c)'
  BY <1>1 DEF HtAccept, HtGo, HtOutInv, HtHeadInv, HtTypeOK
<1> QED BY <1>2, <1>3, <1>4, <1>5, <1>6, HtFrame DEF HtConnInv

LEMMA HtRefuseStep ==
  ASSUME HtInv, NEW c \in HtConns, HtRefuse(c)
  PROVE  HtInv'
<1>1. HtTypeOK /\ HtHeadInv(c) /\ HtBodyInv(c) /\ HtOutInv(c)
  BY DEF HtInv
<1>2. HtTypeOK'
  BY <1>1 DEF HtRefuse, HtGo, HtClose, HtTypeOK
<1>3. HtOthersKept(c)
  BY <1>1 DEF HtRefuse, HtGo, HtClose, HtOthersKept, HtTypeOK
<1>4. HtHeadInv(c)'
  BY <1>1 DEF HtRefuse, HtGo, HtClose, HtHeadInv, HtTypeOK
<1>5. HtBodyInv(c)'
  BY <1>1 DEF HtRefuse, HtGo, HtClose, HtBodyInv, HtOutInv, HtTypeOK
<1>6. HtOutInv(c)'
  BY <1>1 DEF HtRefuse, HtGo, HtClose, HtOutInv, HtHeadInv, HtTypeOK
<1> QED BY <1>2, <1>3, <1>4, <1>5, <1>6, HtFrame DEF HtConnInv

LEMMA HtStartStep ==
  ASSUME HtInv, NEW c \in HtConns, HtStart(c)
  PROVE  HtInv'
<1>1. HtTypeOK /\ HtHeadInv(c) /\ HtBodyInv(c) /\ HtOutInv(c)
  BY DEF HtInv
<1>2. HtTypeOK'
  BY <1>1 DEF HtStart, HtGo, HtTypeOK
<1>3. HtOthersKept(c)
  BY <1>1 DEF HtStart, HtGo, HtOthersKept, HtTypeOK
<1>4. HtHeadInv(c)'
  BY <1>1 DEF HtStart, HtGo, HtHeadInv, HtTypeOK
<1>5. HtBodyInv(c)'
  BY <1>1 DEF HtStart, HtGo, HtBodyInv, HtOutInv, HtTypeOK
<1>6. HtOutInv(c)'
  BY <1>1 DEF HtStart, HtGo, HtOutInv, HtHeadInv, HtTypeOK
<1> QED BY <1>2, <1>3, <1>4, <1>5, <1>6, HtFrame DEF HtConnInv

LEMMA HtRecvHeadFailsStep ==
  ASSUME HtInv, NEW c \in HtConns, HtRecvHeadFails(c)
  PROVE  HtInv'
<1>1. HtTypeOK /\ HtHeadInv(c) /\ HtBodyInv(c) /\ HtOutInv(c)
  BY DEF HtInv
<1>2. HtTypeOK'
  BY <1>1 DEF HtRecvHeadFails, HtGo, HtTypeOK
<1>3. HtOthersKept(c)
  BY <1>1 DEF HtRecvHeadFails, HtGo, HtOthersKept, HtTypeOK
<1>4. HtHeadInv(c)'
  BY <1>1 DEF HtRecvHeadFails, HtGo, HtHeadInv, HtTypeOK
<1>5. HtBodyInv(c)'
  BY <1>1 DEF HtRecvHeadFails, HtGo, HtBodyInv, HtOutInv, HtTypeOK
<1>6. HtOutInv(c)'
  BY <1>1 DEF HtRecvHeadFails, HtGo, HtOutInv, HtHeadInv, HtTypeOK
<1> QED BY <1>2, <1>3, <1>4, <1>5, <1>6, HtFrame DEF HtConnInv

LEMMA HtEmptyStep ==
  ASSUME HtInv, NEW c \in HtConns, HtEmpty(c)
  PROVE  HtInv'
<1>1. HtTypeOK /\ HtHeadInv(c) /\ HtBodyInv(c) /\ HtOutInv(c)
  BY DEF HtInv
<1>2. HtTypeOK'
  BY <1>1 DEF HtEmpty, HtGo, HtClose, HtTypeOK
<1>3. HtOthersKept(c)
  BY <1>1 DEF HtEmpty, HtGo, HtClose, HtOthersKept, HtTypeOK
<1>4. HtHeadInv(c)'
  BY <1>1 DEF HtEmpty, HtGo, HtClose, HtHeadInv, HtTypeOK
<1>5. HtBodyInv(c)'
  BY <1>1 DEF HtEmpty, HtGo, HtClose, HtBodyInv, HtOutInv, HtTypeOK
<1>6. HtOutInv(c)'
  BY <1>1 DEF HtEmpty, HtGo, HtClose, HtOutInv, HtHeadInv, HtTypeOK
<1> QED BY <1>2, <1>3, <1>4, <1>5, <1>6, HtFrame DEF HtConnInv

LEMMA HtMalformedStep ==
  ASSUME HtInv, NEW c \in HtConns, HtMalformed(c)
  PROVE  HtInv'
<1>1. HtTypeOK /\ HtHeadInv(c) /\ HtBodyInv(c) /\ HtOutInv(c)
  BY DEF HtInv
<1>2. HtTypeOK'
  BY <1>1 DEF HtMalformed, HtGo, HtClose, HtTypeOK
<1>3. HtOthersKept(c)
  BY <1>1 DEF HtMalformed, HtGo, HtClose, HtOthersKept, HtTypeOK
<1>4. HtHeadInv(c)'
  BY <1>1 DEF HtMalformed, HtGo, HtClose, HtHeadInv, HtTypeOK
<1>5. HtBodyInv(c)'
  BY <1>1 DEF HtMalformed, HtGo, HtClose, HtBodyInv, HtOutInv, HtTypeOK
<1>6. HtOutInv(c)'
  BY <1>1 DEF HtMalformed, HtGo, HtClose, HtOutInv, HtHeadInv, HtTypeOK
<1> QED BY <1>2, <1>3, <1>4, <1>5, <1>6, HtFrame DEF HtConnInv

LEMMA HtRecvBodyFailsStep ==
  ASSUME HtInv, NEW c \in HtConns, HtRecvBodyFails(c)
  PROVE  HtInv'
<1>1. HtTypeOK /\ HtHeadInv(c) /\ HtBodyInv(c) /\ HtOutInv(c)
  BY DEF HtInv
<1>2. HtTypeOK'
  BY <1>1 DEF HtRecvBodyFails, HtGo, HtClose, HtTypeOK
<1>3. HtOthersKept(c)
  BY <1>1 DEF HtRecvBodyFails, HtGo, HtClose, HtOthersKept, HtTypeOK
<1>4. HtHeadInv(c)'
  BY <1>1 DEF HtRecvBodyFails, HtGo, HtClose, HtHeadInv, HtTypeOK
<1>5. HtBodyInv(c)'
  BY <1>1 DEF HtRecvBodyFails, HtGo, HtClose, HtBodyInv, HtOutInv, HtTypeOK
<1>6. HtOutInv(c)'
  BY <1>1 DEF HtRecvBodyFails, HtGo, HtClose, HtOutInv, HtHeadInv, HtTypeOK
<1> QED BY <1>2, <1>3, <1>4, <1>5, <1>6, HtFrame DEF HtConnInv

LEMMA HtMiddlewareStep ==
  ASSUME HtInv, NEW c \in HtConns, HtMiddleware(c)
  PROVE  HtInv'
<1>1. HtTypeOK /\ HtHeadInv(c) /\ HtBodyInv(c) /\ HtOutInv(c)
  BY DEF HtInv
<1>2. HtTypeOK'
  <2>1. HtMiddlewares \in Nat
    BY HtAssumption
  <2> QED BY <1>1, <2>1 DEF HtMiddleware, HtTypeOK
<1>3. HtOthersKept(c)
  BY <1>1 DEF HtMiddleware, HtOthersKept, HtTypeOK
<1>4. HtHeadInv(c)'
  BY <1>1 DEF HtMiddleware, HtHeadInv, HtTypeOK
<1>5. HtBodyInv(c)'
  BY <1>1 DEF HtMiddleware, HtBodyInv, HtOutInv, HtTypeOK
<1>6. HtOutInv(c)'
  BY <1>1 DEF HtMiddleware, HtOutInv, HtHeadInv, HtTypeOK
<1> QED BY <1>2, <1>3, <1>4, <1>5, <1>6, HtFrame DEF HtConnInv

LEMMA HtAfterChainStep ==
  ASSUME HtInv, NEW c \in HtConns, HtAfterChain(c)
  PROVE  HtInv'
<1>1. HtTypeOK /\ HtHeadInv(c) /\ HtBodyInv(c) /\ HtOutInv(c)
  BY DEF HtInv
<1>2. HtTypeOK'
  BY <1>1 DEF HtAfterChain, HtChainEnd, HtGo, HtTypeOK
<1>3. HtOthersKept(c)
  BY <1>1 DEF HtAfterChain, HtChainEnd, HtGo, HtOthersKept, HtTypeOK
<1>4. HtHeadInv(c)'
  BY <1>1 DEF HtAfterChain, HtChainEnd, HtGo, HtHeadInv, HtTypeOK
<1>5. HtBodyInv(c)'
  BY <1>1 DEF HtAfterChain, HtChainEnd, HtGo, HtBodyInv, HtOutInv, HtTypeOK
<1>6. HtOutInv(c)'
  BY <1>1 DEF HtAfterChain, HtChainEnd, HtGo, HtOutInv, HtHeadInv, HtTypeOK
<1> QED BY <1>2, <1>3, <1>4, <1>5, <1>6, HtFrame DEF HtConnInv

LEMMA HtRouteStep ==
  ASSUME HtInv, NEW c \in HtConns, HtRoute(c)
  PROVE  HtInv'
<1>1. HtTypeOK /\ HtHeadInv(c) /\ HtBodyInv(c) /\ HtOutInv(c)
  BY DEF HtInv
<1>2. HtTypeOK'
  BY <1>1 DEF HtRoute, HtGo, HtTypeOK
<1>3. HtOthersKept(c)
  BY <1>1 DEF HtRoute, HtGo, HtOthersKept, HtTypeOK
<1>4. HtHeadInv(c)'
  BY <1>1 DEF HtRoute, HtGo, HtHeadInv, HtTypeOK
<1>5. HtBodyInv(c)'
  BY <1>1 DEF HtRoute, HtGo, HtBodyInv, HtOutInv, HtTypeOK
<1>6. HtOutInv(c)'
  BY <1>1 DEF HtRoute, HtGo, HtOutInv, HtHeadInv, HtTypeOK
<1> QED BY <1>2, <1>3, <1>4, <1>5, <1>6, HtFrame DEF HtConnInv

LEMMA HtRouteNullStep ==
  ASSUME HtInv, NEW c \in HtConns, HtRouteNull(c)
  PROVE  HtInv'
<1>1. HtTypeOK /\ HtHeadInv(c) /\ HtBodyInv(c) /\ HtOutInv(c)
  BY DEF HtInv
<1>2. HtTypeOK'
  BY <1>1 DEF HtRouteNull, HtGo, HtTypeOK
<1>3. HtOthersKept(c)
  BY <1>1 DEF HtRouteNull, HtGo, HtOthersKept, HtTypeOK
<1>4. HtHeadInv(c)'
  BY <1>1 DEF HtRouteNull, HtGo, HtHeadInv, HtTypeOK
<1>5. HtBodyInv(c)'
  BY <1>1 DEF HtRouteNull, HtGo, HtBodyInv, HtOutInv, HtTypeOK
<1>6. HtOutInv(c)'
  BY <1>1 DEF HtRouteNull, HtGo, HtOutInv, HtHeadInv, HtTypeOK
<1> QED BY <1>2, <1>3, <1>4, <1>5, <1>6, HtFrame DEF HtConnInv

LEMMA HtNoRouteStep ==
  ASSUME HtInv, NEW c \in HtConns, HtNoRoute(c)
  PROVE  HtInv'
<1>1. HtTypeOK /\ HtHeadInv(c) /\ HtBodyInv(c) /\ HtOutInv(c)
  BY DEF HtInv
<1>2. HtTypeOK'
  BY <1>1 DEF HtNoRoute, HtGo, HtTypeOK
<1>3. HtOthersKept(c)
  BY <1>1 DEF HtNoRoute, HtGo, HtOthersKept, HtTypeOK
<1>4. HtHeadInv(c)'
  BY <1>1 DEF HtNoRoute, HtGo, HtHeadInv, HtTypeOK
<1>5. HtBodyInv(c)'
  BY <1>1 DEF HtNoRoute, HtGo, HtBodyInv, HtOutInv, HtTypeOK
<1>6. HtOutInv(c)'
  BY <1>1 DEF HtNoRoute, HtGo, HtOutInv, HtHeadInv, HtTypeOK
<1> QED BY <1>2, <1>3, <1>4, <1>5, <1>6, HtFrame DEF HtConnInv

LEMMA HtSendStep ==
  ASSUME HtInv, NEW c \in HtConns, HtSend(c)
  PROVE  HtInv'
<1>1. HtTypeOK /\ HtHeadInv(c) /\ HtBodyInv(c) /\ HtOutInv(c)
  BY DEF HtInv
<1>2. HtTypeOK'
  BY <1>1 DEF HtSend, HtGo, HtClose, HtTypeOK
<1>3. HtOthersKept(c)
  BY <1>1 DEF HtSend, HtGo, HtClose, HtOthersKept, HtTypeOK
<1>4. HtHeadInv(c)'
  BY <1>1 DEF HtSend, HtGo, HtClose, HtHeadInv, HtTypeOK
<1>5. HtBodyInv(c)'
  BY <1>1 DEF HtSend, HtGo, HtClose, HtBodyInv, HtOutInv, HtTypeOK
<1>6. HtOutInv(c)'
  BY <1>1 DEF HtSend, HtGo, HtClose, HtOutInv, HtHeadInv, HtTypeOK
<1> QED BY <1>2, <1>3, <1>4, <1>5, <1>6, HtFrame DEF HtConnInv

LEMMA HtRecvHeadStep ==
  ASSUME HtInv, NEW c \in HtConns, HtRecvHead(c)
  PROVE  HtInv'
<1>1. HtTypeOK /\ HtHeadInv(c) /\ HtBodyInv(c) /\ HtOutInv(c)
  BY DEF HtInv
<1>2. PICK k \in 1 .. Len(ht_wire[c]) :
        LET buf == ht_buf[c] \o SubSeq(ht_wire[c], 1, k)
            stop == HasEnd(buf) \/ Len(buf) = HtBuffer
        IN /\ HtGo(c, "head", IF stop THEN "parse" ELSE "head")
           /\ ht_buf' = [ht_buf EXCEPT ![c] = buf]
           /\ ht_wire' = [ht_wire EXCEPT ![c] = SubSeq(@, k + 1, Len(@))]
           /\ ht_whole' = [ht_whole EXCEPT ![c] = HasEnd(buf)]
           /\ UNCHANGED <<ht_body, ht_want, ht_mw, ht_status, ht_replies, ht_closes,
                          ht_rejected, ht_seen>>
  BY DEF HtRecvHead
<1> DEFINE buf == ht_buf[c] \o SubSeq(ht_wire[c], 1, k)
           rest == SubSeq(ht_wire[c], k + 1, Len(ht_wire[c]))
           to == IF HasEnd(buf) \/ Len(buf) = HtBuffer THEN "parse" ELSE "head"
<1>3. /\ ht_pc[c] = "head" /\ ht_pc' = [ht_pc EXCEPT ![c] = to]
      /\ ht_buf' = [ht_buf EXCEPT ![c] = buf]
      /\ ht_wire' = [ht_wire EXCEPT ![c] = rest]
      /\ ht_whole' = [ht_whole EXCEPT ![c] = HasEnd(buf)]
      /\ UNCHANGED <<ht_body, ht_want, ht_mw, ht_status, ht_replies, ht_closes,
                     ht_rejected, ht_seen>>
  BY <1>2 DEF HtGo
<1>4. ht_buf[c] \in Seq(HtCells) /\ ht_wire[c] \in Seq(HtCells) /\ HtOrdered(ht_buf[c] \o ht_wire[c])
  BY <1>1, <1>3 DEF HtTypeOK, HtHeadInv
<1>5. buf \in Seq(HtCells) /\ rest \in Seq(HtCells) /\ HtOrdered(buf) /\ HtOrdered(buf \o rest)
  BY <1>4, SegmentFacts
<1>6. to \in {"parse", "head"} /\ HasEnd(buf) \in BOOLEAN
  BY DEF HasEnd
<1> HIDE DEF buf, rest, to
<1>7. HtTypeOK'
  BY <1>1, <1>3, <1>5, <1>6 DEF HtTypeOK
<1>8. HtOthersKept(c)
  BY <1>1, <1>3 DEF HtOthersKept, HtTypeOK
<1>9. /\ ht_pc'[c] = to /\ ht_buf'[c] = buf /\ ht_wire'[c] = rest /\ ht_whole'[c] = HasEnd(buf)
      /\ ht_seen'[c] = NotCalled
  BY <1>1, <1>3 DEF HtTypeOK, HtOutInv
<1>10. HtHeadInv(c)'
  BY <1>5, <1>6, <1>9 DEF HtHeadInv
<1>11. HtBodyInv(c)' /\ HtOutInv(c)'
  BY <1>1, <1>3, <1>6, <1>9 DEF HtBodyInv, HtOutInv
<1> QED BY <1>7, <1>8, <1>10, <1>11, HtFrame DEF HtConnInv

LEMMA HtParseStep ==
  ASSUME HtInv, NEW c \in HtConns, HtParse(c)
  PROVE  HtInv'
<1> DEFINE p == Parsed(ht_buf[c])
           to == IF p.want > p.have THEN "body" ELSE "middleware"
<1>1. HtTypeOK /\ HtHeadInv(c) /\ HtBodyInv(c) /\ HtOutInv(c)
  BY DEF HtInv
<1>2. /\ ht_pc[c] = "parse" /\ ht_pc' = [ht_pc EXCEPT ![c] = to]
      /\ ht_body' = [ht_body EXCEPT ![c] = p.have] /\ ht_want' = [ht_want EXCEPT ![c] = p.want]
      /\ UNCHANGED <<ht_wire, ht_buf, ht_mw, ht_status, ht_replies, ht_closes,
                     ht_whole, ht_rejected, ht_seen>>
  BY DEF HtParse, HtGo
<1>3. p.have \in Nat /\ p.want \in Nat
  BY <1>1, ParsedFacts DEF HtTypeOK
<1>4. to \in {"body", "middleware"} /\ (to = "middleware" => p.have >= p.want)
  BY <1>3
<1>5. p.want = Parsed(ht_buf[c]).want
  OBVIOUS
<1> HIDE DEF p, to
<1>6. HtTypeOK'
  BY <1>1, <1>2, <1>3, <1>4 DEF HtTypeOK
<1>7. HtOthersKept(c)
  BY <1>1, <1>2 DEF HtOthersKept, HtTypeOK
<1>8. HtHeadInv(c)'
  BY <1>1, <1>2, <1>4 DEF HtHeadInv, HtTypeOK
<1>9. HtBodyInv(c)' /\ HtOutInv(c)'
  BY <1>1, <1>2, <1>4, <1>5 DEF HtBodyInv, HtOutInv, HtTypeOK
<1> QED BY <1>6, <1>7, <1>8, <1>9, HtFrame DEF HtConnInv

LEMMA HtRecvBodyStep ==
  ASSUME HtInv, NEW c \in HtConns, HtRecvBody(c)
  PROVE  HtInv'
<1>1. HtTypeOK /\ HtHeadInv(c) /\ HtBodyInv(c) /\ HtOutInv(c)
  BY DEF HtInv
<1>2. PICK k \in 1 .. Len(ht_wire[c]) :
      /\ ht_body[c] + k <= ht_want[c]
      /\ HtGo(c, "body", IF ht_body[c] + k = ht_want[c] THEN "middleware" ELSE "body")
      /\ ht_body' = [ht_body EXCEPT ![c] = @ + k]
      /\ ht_wire' = [ht_wire EXCEPT ![c] = SubSeq(@, k + 1, Len(@))]
      /\ UNCHANGED <<ht_buf, ht_want, ht_mw, ht_status, ht_replies, ht_closes,
                     ht_whole, ht_rejected, ht_seen>>
  BY DEF HtRecvBody
<1>3. ht_wire[c] \in Seq(HtCells) /\ ht_body[c] + k \in Nat
  BY <1>1 DEF HtTypeOK
<1>4. SubSeq(ht_wire[c], k + 1, Len(ht_wire[c])) \in Seq(HtCells)
  BY <1>3
<1>5. HtTypeOK'
  BY <1>1, <1>2, <1>3, <1>4 DEF HtTypeOK, HtGo
<1>6. HtOthersKept(c)
  BY <1>1, <1>2 DEF HtOthersKept, HtTypeOK, HtGo
<1>7. HtHeadInv(c)'
  BY <1>1, <1>2 DEF HtHeadInv, HtTypeOK, HtGo
<1>8. HtBodyInv(c)' /\ HtOutInv(c)'
  BY <1>1, <1>2 DEF HtBodyInv, HtOutInv, HtTypeOK, HtGo
<1> QED BY <1>5, <1>6, <1>7, <1>8, HtFrame DEF HtConnInv

LEMMA HtStepInv == HtInv /\ [HtNext]_htVars => HtInv'
<1>1. SUFFICES ASSUME HtInv, [HtNext]_htVars PROVE HtInv'
  OBVIOUS
<1>2. CASE UNCHANGED htVars
  BY <1>1, <1>2 DEF htVars, HtInv, HtTypeOK, HtHeadInv, HtBodyInv, HtOutInv
<1>3. ASSUME NEW c \in HtConns, HtAccept(c) \/ HtRefuse(c) \/ HtHandle(c) PROVE HtInv'
  BY <1>1, <1>3, HtAcceptStep, HtRefuseStep, HtStartStep, HtRecvHeadStep, HtRecvHeadFailsStep,
     HtEmptyStep, HtMalformedStep, HtParseStep, HtRecvBodyStep, HtRecvBodyFailsStep,
     HtMiddlewareStep, HtAfterChainStep, HtRouteStep, HtRouteNullStep, HtNoRouteStep,
     HtSendStep DEF HtHandle
<1> QED BY <1>1, <1>2, <1>3 DEF HtNext

(* The invariant of the HTTP server holds in every reachable state.        *)
THEOREM HtInvariant == HtSpec => []HtInv
BY HtInitInv, HtStepInv, PTL DEF HtSpec

(* Every connection of http_server.c is answered at most once and its      *)
(* socket destroyed once, on every way out of the handler; a handler never *)
(* sees less than the body its request declared, cut down to HtMaxBody, if *)
(* the headers arrived whole and the Content-Length is among the ones that *)
(* are kept; and a request that a middleware rejected with a status does   *)
(* not reach its route.                                                    *)
THEOREM HtIsSafe == HtSpec => []HtSafe
<1>1. ASSUME HtInv PROVE HtSafe
  <2>1. HtTypeOK /\ \A c \in HtConns : HtHeadInv(c) /\ HtBodyInv(c) /\ HtOutInv(c)
    BY <1>1 DEF HtInv
  <2>2. HtAnsweredOnce
    BY <2>1 DEF HtAnsweredOnce, HtOutInv, HtTypeOK
  <2>3. ASSUME NEW c \in HtConns, ht_seen[c] # NotCalled, ht_whole[c],
               NEW i \in HtDeclares(ht_buf[c]),
               \A j \in HtDeclares(ht_buf[c]) : i <= j, i <= HtMaxHeaders + 1
        PROVE  \/ ht_seen[c] >= HtLengths[ht_buf[c][i]]
               \/ HtLengths[ht_buf[c][i]] > HtMaxBody /\ ht_seen[c] >= HtMaxBody
    <3>1. ht_buf[c] \in Seq(HtCells) /\ HasEnd(ht_buf[c]) /\ HtOrdered(ht_buf[c])
      BY <2>1, <2>3 DEF HtHeadInv, HtTypeOK
    <3>2. ht_seen[c] >= Parsed(ht_buf[c]).want
      BY <2>1, <2>3 DEF HtBodyInv
    <3>3. /\ HtLengths[ht_buf[c][i]] \in Nat
          /\ \/ Parsed(ht_buf[c]).want = HtLengths[ht_buf[c][i]]
             \/ HtLengths[ht_buf[c][i]] > HtMaxBody /\ Parsed(ht_buf[c]).want = HtMaxBody
      BY <2>3, <3>1, ParsedFacts
    <3> QED BY <3>2, <3>3
  <2>4. HtRejectedNotRouted
    BY <2>1 DEF HtRejectedNotRouted, HtOutInv
  <2> QED BY <2>2, <2>3, <2>4 DEF HtSafe, HtBodyComplete
<1> QED BY <1>1, HtInvariant, PTL

-----------------------------------------------------------------------------
(* The reactor: the events of a thread.                                     *)

LEMMA EventFacts ==
  ASSUME ReTypeOK, ReBatchInv, NEW t \in ReThreads, re_pc[t] \in {"event", "remove"} \cup Handlers
  PROVE  /\ Len(re_batch[t]) >= 1 /\ DOMAIN re_batch[t] = 1 .. Len(re_batch[t])
         /\ Len(re_batch[t]) \in Nat
         /\ Event(t) = re_batch[t][1] /\ Event(t).fd \in ReFds /\ Event(t).ev \in Events
         /\ re_pc[t] # "remove" => Has(t, Event(t).fd)
<1>1. re_batch[t] \in Seq([fd : ReFds, ev : Events]) /\ re_batch[t] # <<>>
  BY DEF ReTypeOK, ReBatchInv
<1>2. /\ Len(re_batch[t]) \in Nat /\ Len(re_batch[t]) >= 1 /\ DOMAIN re_batch[t] = 1 .. Len(re_batch[t])
      /\ Event(t) = re_batch[t][1] /\ Event(t) \in [fd : ReFds, ev : Events]
  <2> DEFINE b == re_batch[t]
             E == [fd : ReFds, ev : Events]
  <2>1. b \in Seq(E) /\ b # <<>>
    BY <1>1
  <2> HIDE DEF b, E
  <2>2. Len(b) \in Nat /\ Len(b) >= 1 /\ DOMAIN b = 1 .. Len(b) /\ Head(b) = b[1] /\ Head(b) \in E
    BY <2>1
  <2> QED BY <2>2 DEF Event, b, E
<1>3. 1 \in DOMAIN re_batch[t]
  BY <1>2
<1> QED BY <1>2, <1>3 DEF Has

LEMMA SameEvents ==
  ASSUME UNCHANGED <<re_pc, re_batch>>
  PROVE  \A t \in ReThreads : Event(t)' = Event(t) /\ \A f \in ReFds : Has(t, f)' <=> Has(t, f)
BY DEF Event, Has

(* What a step of the loop of thread t does to the events. *)
LEMMA GotoFacts ==
  ASSUME ReTypeOK, ReBatchInv, NEW t \in ReThreads, re_pc[t] \in {"event", "remove"} \cup Handlers,
         NEW pc \in {"next", "remove"} \cup Handlers, NEW copy \in Conns \cup {0},
         re_pc[t] = "remove" => pc = "next", Goto(t, pc, copy)
  PROVE  /\ re_pc' \in [ReThreads -> {"loop", "event", "remove", "exit"} \cup Handlers]
         /\ re_batch' \in [ReThreads -> Seq([fd : ReFds, ev : Events])]
         /\ re_copy' \in [ReThreads -> Conns \cup {0}]
         /\ re_fault' \in BOOLEAN
         /\ ReBatchInv'
         /\ pc # "next" => re_pc'[t] = pc /\ re_copy'[t] = copy /\ Event(t)' = Event(t)
         /\ pc = "next" => re_pc'[t] \in {"loop", "event"}
         /\ \A f \in ReFds : Has(t, f)' => Has(t, f) /\ (pc \notin Handlers => f # Event(t).fd)
         /\ \A u \in ReThreads \ {t} :
              /\ re_pc'[u] = re_pc[u] /\ re_copy'[u] = re_copy[u] /\ Event(u)' = Event(u)
              /\ \A f \in ReFds : Has(u, f)' <=> Has(u, f)
<1> DEFINE b == re_batch[t]
<1>1. b \in Seq([fd : ReFds, ev : Events]) /\ Len(b) \in Nat /\ Len(b) >= 1 /\ DOMAIN b = 1 .. Len(b)
  BY EventFacts DEF ReTypeOK
<1>2. \A i, j \in DOMAIN b : b[i].fd = b[j].fd => i = j
  BY DEF ReBatchInv
<1>3. Event(t) = b[1] /\ Event(t).fd \in ReFds
  BY EventFacts
<1>4. /\ re_pc' = [re_pc EXCEPT ![t] = IF pc # "next" THEN pc ELSE IF Len(b) = 1 THEN "loop" ELSE "event"]
      /\ re_batch' = IF pc = "next" THEN [re_batch EXCEPT ![t] = Tail(b)] ELSE re_batch
      /\ re_copy' = [re_copy EXCEPT ![t] = IF pc = "next" THEN 0 ELSE copy]
  <2>1. re_pc' = [re_pc EXCEPT ![t] = IF pc # "next" THEN pc ELSE IF Len(b) = 1 THEN "loop" ELSE "event"]
    BY DEF Goto, b
  <2>2. re_batch' = IF pc = "next" THEN [re_batch EXCEPT ![t] = Tail(b)] ELSE re_batch
    BY DEF Goto, b
  <2>3. re_copy' = [re_copy EXCEPT ![t] = IF pc = "next" THEN 0 ELSE copy]
    BY DEF Goto
  <2> QED BY <2>1, <2>2, <2>3
<1>5. re_fault' \in BOOLEAN
  BY DEF Goto
<1>6. /\ Tail(b) \in Seq([fd : ReFds, ev : Events]) /\ Len(Tail(b)) = Len(b) - 1
      /\ DOMAIN Tail(b) = 1 .. Len(b) - 1
      /\ \A i \in 1 .. Len(b) - 1 : i + 1 \in DOMAIN b /\ Tail(b)[i] = b[i + 1]
  BY <1>1
<1> HIDE DEF b
<1>7. "next" \notin Handlers /\ "remove" \notin Handlers /\ "loop" \notin Handlers /\ "event" \notin Handlers
  BY DEF Handlers
<1>8. /\ re_pc' \in [ReThreads -> {"loop", "event", "remove", "exit"} \cup Handlers]
      /\ re_batch' \in [ReThreads -> Seq([fd : ReFds, ev : Events])]
      /\ re_copy' \in [ReThreads -> Conns \cup {0}]
  BY <1>4, <1>6 DEF ReTypeOK
<1>9. ASSUME NEW u \in ReThreads \ {t}
      PROVE  re_pc'[u] = re_pc[u] /\ re_copy'[u] = re_copy[u] /\ re_batch'[u] = re_batch[u]
  BY <1>4 DEF ReTypeOK
<1>10. /\ pc # "next" => re_pc'[t] = pc /\ re_copy'[t] = copy /\ re_batch'[t] = b
       /\ pc = "next" => /\ re_pc'[t] = IF Len(b) = 1 THEN "loop" ELSE "event"
                         /\ re_batch'[t] = Tail(b)
  BY <1>4 DEF ReTypeOK, b
<1>11. ReBatchInv'
  <2>1. ASSUME NEW u \in ReThreads \ {t}
        PROVE  /\ (re_pc'[u] \in {"event", "remove"} \cup Handlers => re_batch'[u] # <<>>)
               /\ \A i, j \in DOMAIN re_batch'[u] : re_batch'[u][i].fd = re_batch'[u][j].fd => i = j
    BY <1>9 DEF ReBatchInv
  <2>2. CASE pc # "next"
    <3>1. b # <<>>
      BY <1>1
    <3> QED BY <1>2, <1>10, <2>1, <2>2, <3>1 DEF ReBatchInv
  <2>3. CASE pc = "next"
    <3>1. \A i, j \in DOMAIN Tail(b) : Tail(b)[i].fd = Tail(b)[j].fd => i = j
      <4> SUFFICES ASSUME NEW i \in 1 .. Len(b) - 1, NEW j \in 1 .. Len(b) - 1, Tail(b)[i].fd = Tail(b)[j].fd
                   PROVE  i = j
        BY <1>6
      <4>1. i + 1 \in DOMAIN b /\ j + 1 \in DOMAIN b /\ b[i + 1].fd = b[j + 1].fd
        BY <1>6
      <4>2. i + 1 = j + 1
        BY <1>2, <4>1
      <4> QED BY <4>2
    <3>2. re_pc'[t] \in {"event", "remove"} \cup Handlers => Tail(b) # <<>>
      <4>1. CASE Len(b) = 1
        BY <1>7, <1>10, <2>3, <4>1
      <4>2. CASE Len(b) # 1
        <5>1. Len(Tail(b)) # 0
          BY <1>1, <1>6, <4>2
        <5>2. Len(<<>>) = 0
          OBVIOUS
        <5> QED BY <5>1, <5>2
      <4> QED BY <4>1, <4>2
    <3> QED BY <1>10, <2>1, <2>3, <3>1, <3>2 DEF ReBatchInv
  <2> QED BY <2>2, <2>3
<1>12. pc # "next" => Event(t)' = Event(t)
  BY <1>10 DEF Event, b
<1>13. ASSUME NEW u \in ReThreads \ {t}
       PROVE  Event(u)' = Event(u) /\ \A f \in ReFds : Has(u, f)' <=> Has(u, f)
  BY <1>9 DEF Event, Has
<1>14. ASSUME NEW f \in ReFds, Has(t, f)'
       PROVE  Has(t, f) /\ (pc \notin Handlers => f # Event(t).fd)
  <2>1. CASE pc = "next"
    <3>1. PICK i \in DOMAIN Tail(b) : Tail(b)[i].fd = f
      BY <1>10, <1>14, <2>1 DEF Has
    <3>2. i + 1 \in DOMAIN b /\ b[i + 1].fd = f /\ i + 1 # 1
      BY <1>6, <3>1
    <3>3. b[1].fd # f
      BY <1>1, <1>2, <3>2
    <3> QED BY <1>3, <3>2, <3>3 DEF Has, b
  <2>2. CASE pc = "remove"
    <3>1. PICK i \in DOMAIN b : b[i].fd = f /\ i # 1
      BY <1>10, <1>14, <2>2 DEF Has
    <3>2. b[1].fd # f
      BY <1>1, <1>2, <3>1
    <3> QED BY <1>3, <3>1, <3>2 DEF Has, b
  <2>3. CASE pc \in Handlers
    <3>1. PICK i \in DOMAIN b : b[i].fd = f
      BY <1>10, <1>7, <1>14, <2>3 DEF Has
    <3>2. re_pc[t] # "remove"
      BY <1>7, <2>3
    <3> QED BY <2>3, <3>1, <3>2 DEF Has, b
  <2> QED BY <2>1, <2>2, <2>3
<1>15. pc = "next" => re_pc'[t] \in {"loop", "event"}
  BY <1>10
<1> QED BY <1>4, <1>8, <1>9, <1>10, <1>11, <1>12, <1>13, <1>14, <1>15, <1>5
-----------------------------------------------------------------------------
(* The reactor: its interface and the workers.                              *)

LEMMA ReInitInv == ReInit => ReInv
<1>1. SUFFICES ASSUME ReInit PROVE ReInv
  OBVIOUS
<1>2. ReTypeOK
  <2>1. re_batch \in [ReThreads -> Seq([fd : ReFds, ev : Events])]
    BY <1>1 DEF ReInit
  <2>2. re_reg \in [ReFds -> {"none", "armed", "off"}] /\ re_pc \in [ReThreads -> {"loop", "event", "remove", "exit"} \cup Handlers]
    BY <1>1 DEF ReInit
  <2> QED BY <1>1, <2>1, <2>2 DEF ReInit, ReTypeOK
<1>3. \A t \in ReThreads : re_batch[t] = <<>> /\ re_pc[t] = "loop" /\ "loop" \notin Handlers
  BY <1>1 DEF ReInit, Handlers
<1>4. ReBatchInv
  BY <1>3 DEF ReBatchInv
<1>5. ReOpenInv
  BY <1>1, <1>3 DEF ReInit, ReOpenInv
<1>6. \A t \in ReThreads, f \in ReFds : ~Has(t, f)
  BY <1>3 DEF Has
<1>7. ReOneShotInv
  BY <1>1, <1>6 DEF ReInit, ReOneShotInv
<1>8. ReRemoveInv /\ SlotIsCurrent /\ NotDropped
  BY <1>1, <1>3 DEF ReInit, ReRemoveInv, SlotIsCurrent, NotDropped
<1> QED BY <1>2, <1>4, <1>5, <1>7, <1>8 DEF ReInv

LEMMA ReOpenStep ==
  ASSUME ReInv, ~re_fault, NEW f \in ReFds, ReOpen(f)
  PROVE  ReInv'
<1>1. ReTypeOK /\ ReBatchInv /\ ReOpenInv /\ ReOneShotInv /\ ReRemoveInv /\ SlotIsCurrent /\ NotDropped
  BY DEF ReInv
<1>2. PICK c \in Conns :
        /\ re_conn[c] = "unborn"
        /\ re_file' = [re_file EXCEPT ![f] = c] /\ re_conn' = [re_conn EXCEPT ![c] = "new"]
  BY DEF ReOpen
<1>3. re_file[f] = 0 /\ UNCHANGED <<re_running, re_slot, re_reg, re_pc, re_batch, re_copy, re_early, re_self, re_fault>>
  BY DEF ReOpen, loopVars, histVars
<1>4. c # 0 /\ c \in Nat
  BY ReAssumption DEF Conns
<1>5. /\ re_file'[f] = c /\ \A g \in ReFds : g # f => re_file'[g] = re_file[g]
      /\ re_conn'[c] = "new" /\ \A d \in Conns : d # c => re_conn'[d] = re_conn[d]
  BY <1>1, <1>2 DEF ReTypeOK
<1>6. /\ \A g \in ReFds : re_file[g] # c /\ re_slot[g] # c
      /\ \A t \in ReThreads : re_pc[t] \in Handlers => re_copy[t] # c
  BY <1>1, <1>2, <1>4 DEF ReOpenInv
<1>7. re_reg[f] = "none"
  BY <1>1, <1>3 DEF SlotIsCurrent
<1>8. \A t \in ReThreads : Event(t)' = Event(t) /\ \A g \in ReFds : Has(t, g)' <=> Has(t, g)
  BY <1>3, SameEvents
<1>9. ReTypeOK'
  BY <1>1, <1>2, <1>3 DEF ReTypeOK
<1>10. ReBatchInv'
  BY <1>1, <1>3 DEF ReBatchInv
<1>11. ReOpenInv'
  <2>1. \A g \in ReFds : re_file'[g] # 0 => re_conn'[re_file'[g]] \notin {"unborn", "closed"}
    BY <1>1, <1>5, <1>6 DEF ReOpenInv, ReTypeOK
  <2>2. \A d \in Conns : re_conn'[d] \notin {"unborn", "closed"} => \E g \in ReFds : re_file'[g] = d
    <3> SUFFICES ASSUME NEW d \in Conns, re_conn'[d] \notin {"unborn", "closed"}
                 PROVE  \E g \in ReFds : re_file'[g] = d
      OBVIOUS
    <3>1. CASE d = c
      BY <1>5, <3>1
    <3>2. CASE d # c
      <4>1. PICK g \in ReFds : re_file[g] = d
        BY <1>1, <1>5, <3>2 DEF ReOpenInv
      <4>2. d # 0
        BY ReAssumption DEF Conns
      <4> QED BY <1>3, <1>5, <4>1, <4>2
    <3> QED BY <3>1, <3>2
  <2>3. \A g, h \in ReFds : re_file'[g] # 0 /\ re_file'[g] = re_file'[h] => g = h
    BY <1>1, <1>5, <1>6 DEF ReOpenInv
  <2>4. \A g \in ReFds : re_slot'[g] # 0 =>
          re_conn'[re_slot'[g]] # "unborn" /\ \A h \in ReFds : re_file'[h] = re_slot'[g] => h = g
    BY <1>1, <1>3, <1>5, <1>6 DEF ReOpenInv, ReTypeOK
  <2>5. \A t \in ReThreads : re_pc'[t] \in Handlers =>
          /\ re_copy'[t] # 0 /\ re_conn'[re_copy'[t]] # "unborn"
          /\ \A g \in ReFds : re_file'[g] = re_copy'[t] => g = Event(t)'.fd
          /\ ~re_fault' => re_conn'[re_copy'[t]] # "closed"
    BY <1>1, <1>3, <1>5, <1>6, <1>8 DEF ReOpenInv, ReTypeOK
  <2> QED BY <2>1, <2>2, <2>3, <2>4, <2>5 DEF ReOpenInv
<1>12. ASSUME NEW g \in ReFds, g # f PROVE re_file'[g] = re_file[g] /\ (re_file[g] # 0 => re_conn'[re_file[g]] = re_conn[re_file[g]])
  BY <1>1, <1>5, <1>6, <1>12 DEF ReTypeOK
<1>13. f \notin re_early => \A t \in ReThreads : ~Has(t, f)
  BY <1>1, <1>3 DEF ReOneShotInv
<1>14. \A g \in ReFds : re_reg[g] # "none" => re_file[g] # 0 /\ g # f
  BY <1>1, <1>7 DEF SlotIsCurrent
<1>15. ReOneShotInv'
  BY <1>1, <1>3, <1>8, <1>12, <1>13, <1>14 DEF ReOneShotInv
<1>16. ReRemoveInv'
  BY <1>1, <1>3, <1>8, <1>12 DEF ReRemoveInv
<1>17. SlotIsCurrent' /\ NotDropped'
  BY <1>1, <1>3, <1>5, <1>6, <1>7 DEF SlotIsCurrent, NotDropped, ReTypeOK
<1> QED BY <1>9, <1>10, <1>11, <1>15, <1>16, <1>17 DEF ReInv

LEMMA ReAddStep ==
  ASSUME ReInv, ~re_fault, NEW f \in ReFds, ReAdd(f)
  PROVE  ReInv'
<1>1. ReTypeOK /\ ReBatchInv /\ ReOpenInv /\ ReOneShotInv /\ ReRemoveInv /\ SlotIsCurrent /\ NotDropped
  BY DEF ReInv
<1> DEFINE c == re_file[f]
<1>2. /\ c # 0 /\ c \in Conns /\ re_conn[c] = "new"
      /\ re_slot' = [re_slot EXCEPT ![f] = c]
      /\ UNCHANGED <<re_running, re_file, re_pc, re_batch, re_copy, re_early, re_self, re_fault>>
  BY <1>1 DEF ReAdd, loopVars, histVars, ReTypeOK
<1>3. \/ /\ re_reg' = [re_reg EXCEPT ![f] = "armed"] /\ re_conn' = [re_conn EXCEPT ![c] = "added"]
      \/ re_conn' = [re_conn EXCEPT ![c] = "left"] /\ re_reg' = re_reg
  BY DEF ReAdd, ReArmed
<1> HIDE DEF c
<1>4. /\ re_slot'[f] = c /\ \A g \in ReFds : g # f => re_slot'[g] = re_slot[g] /\ re_reg'[g] = re_reg[g]
      /\ \A d \in Conns : d # c => re_conn'[d] = re_conn[d]
      /\ \/ re_reg'[f] = "armed" /\ re_conn'[c] = "added"
         \/ re_reg'[f] = re_reg[f] /\ re_conn'[c] = "left"
  BY <1>1, <1>2, <1>3 DEF ReTypeOK
<1>5. re_file[f] = c /\ \A g \in ReFds : g # f => re_file[g] # c
  BY <1>1, <1>2 DEF ReOpenInv, c
<1>6. \A t \in ReThreads : Event(t)' = Event(t) /\ \A g \in ReFds : Has(t, g)' <=> Has(t, g)
  BY <1>2, SameEvents
<1>7. f \notin re_early => re_reg[f] # "armed" /\ \A t \in ReThreads : ~Has(t, f)
  BY <1>1, <1>2, <1>5 DEF ReOneShotInv
<1>8. ReTypeOK'
  BY <1>1, <1>2, <1>3 DEF ReTypeOK
<1>9. ReBatchInv'
  BY <1>1, <1>2 DEF ReBatchInv
<1>10. ReOpenInv'
  BY <1>1, <1>2, <1>4, <1>5, <1>6 DEF ReOpenInv, ReTypeOK
<1>11. \A g \in ReFds : g # f /\ re_file[g] # 0 => re_conn'[re_file[g]] = re_conn[re_file[g]]
  BY <1>1, <1>4, <1>5 DEF ReTypeOK
<1>12. \A g \in ReFds : re_reg[g] # "none" => re_file[g] # 0
  BY <1>1 DEF SlotIsCurrent
<1>13. ReOneShotInv'
  <2> SUFFICES ASSUME NEW g \in ReFds \ re_early
               PROVE  /\ \A t, u \in ReThreads : Has(t, g) /\ Has(u, g) => t = u
                      /\ \A t \in ReThreads : Has(t, g) =>
                           /\ re_file[g] # 0 /\ re_conn'[re_file[g]] = "added"
                           /\ re_reg'[g] # "armed" /\ re_slot'[g] \in {0, re_file[g]}
                      /\ re_reg'[g] = "armed" => re_conn'[re_file[g]] = "added"
    BY <1>1, <1>2, <1>6 DEF ReOneShotInv
  <2>1. CASE g = f
    BY <1>4, <1>5, <1>7, <2>1
  <2>2. CASE g # f
    BY <1>1, <1>4, <1>11, <1>12, <2>2 DEF ReOneShotInv
  <2> QED BY <2>1, <2>2
<1>14. ReRemoveInv'
  BY <1>1, <1>2, <1>4, <1>5, <1>6 DEF ReRemoveInv, ReTypeOK
<1>15. SlotIsCurrent' /\ NotDropped'
  BY <1>1, <1>2, <1>4, <1>5 DEF SlotIsCurrent, NotDropped, ReTypeOK
<1> QED BY <1>8, <1>9, <1>10, <1>13, <1>14, <1>15 DEF ReInv

(* The connection of a descriptor is closed by its owner, who leaves the   *)
(* slot, or by a worker.                                                   *)
LEMMA ReClosedStep ==
  ASSUME ReInv, ~re_fault, NEW f \in ReFds, NEW c \in Conns, re_file[f] = c,
         re_conn[c] \in {"left", "handed"},
         re_file' = [re_file EXCEPT ![f] = 0], re_reg' = [re_reg EXCEPT ![f] = "none"],
         re_conn' = [re_conn EXCEPT ![c] = "closed"],
         re_slot' \in {re_slot, [re_slot EXCEPT ![f] = 0]},
         re_fault' = (\E s \in ReThreads : re_pc[s] \in Handlers /\ re_copy[s] = c),
         re_self \subseteq re_self' /\ re_self' \subseteq ReFds,
         \A t \in ReThreads : re_pc[t] = "remove" /\ Event(t).fd = f => f \in re_self' \/ re_conn[c] = "handed",
         UNCHANGED <<re_running, re_pc, re_batch, re_copy, re_early>>
  PROVE  ReInv'
<1>1. ReTypeOK /\ ReBatchInv /\ ReOpenInv /\ ReOneShotInv /\ ReRemoveInv /\ SlotIsCurrent /\ NotDropped
  BY DEF ReInv
<1>2. /\ re_file'[f] = 0 /\ re_reg'[f] = "none" /\ re_slot'[f] \in {0, re_slot[f]}
      /\ \A g \in ReFds : g # f => re_file'[g] = re_file[g] /\ re_reg'[g] = re_reg[g] /\ re_slot'[g] = re_slot[g]
      /\ re_conn'[c] = "closed" /\ \A d \in Conns : d # c => re_conn'[d] = re_conn[d]
  BY <1>1 DEF ReTypeOK
<1>3. c # 0 /\ \A g \in ReFds : g # f => re_file[g] # c
  BY <1>1, ReAssumption DEF ReOpenInv, Conns
<1>4. \A t \in ReThreads : Event(t)' = Event(t) /\ \A g \in ReFds : Has(t, g)' <=> Has(t, g)
  BY SameEvents
<1>5. f \notin re_early => \A t \in ReThreads : ~Has(t, f)
  BY <1>1 DEF ReOneShotInv
<1>6. ReTypeOK'
  BY <1>1 DEF ReTypeOK
<1>7. ReBatchInv'
  BY <1>1 DEF ReBatchInv
<1>8. ReOpenInv'
  <2>1. ASSUME NEW t \in ReThreads, re_pc[t] \in Handlers
        PROVE  /\ re_copy[t] # 0 /\ re_conn'[re_copy[t]] # "unborn"
               /\ \A g \in ReFds : re_file'[g] = re_copy[t] => g = Event(t).fd
               /\ ~re_fault' => re_conn'[re_copy[t]] # "closed"
    BY <1>1, <1>2, <2>1 DEF ReOpenInv, ReTypeOK
  <2> QED BY <1>1, <1>2, <1>3, <1>4, <2>1 DEF ReOpenInv, ReTypeOK
<1>9. ASSUME NEW s \in ReThreads, re_pc[s] \in Handlers, re_copy[s] = c PROVE f \in re_early
  <2>1. Event(s).fd = f
    BY <1>1, <1>9 DEF ReOpenInv
  <2>2. Has(s, f)
    BY <1>1, <1>9, <2>1, EventFacts DEF Handlers
  <2> QED BY <1>5, <2>2
<1>10. ReOneShotInv'
  <2>1. re_fault' => re_early # {}
    BY <1>9
  <2> QED BY <1>1, <1>2, <1>3, <1>4, <1>5, <2>1 DEF ReOneShotInv, ReTypeOK
<1>11. ReRemoveInv'
  BY <1>1, <1>2, <1>3, <1>4 DEF ReRemoveInv, ReTypeOK
<1>12. SlotIsCurrent' /\ NotDropped'
  BY <1>1, <1>2, <1>3 DEF SlotIsCurrent, NotDropped, ReTypeOK
<1> QED BY <1>6, <1>7, <1>8, <1>10, <1>11, <1>12 DEF ReInv

LEMMA ReOwnerCloseStep ==
  ASSUME ReInv, ~re_fault, NEW f \in ReFds, ReOwnerClose(f)
  PROVE  ReInv'
<1>1. re_file[f] \in Conns /\ re_self \subseteq ReFds
  BY DEF ReInv, ReTypeOK, ReOwnerClose
<1>2. /\ re_self \subseteq re_self' /\ re_self' \subseteq ReFds
      /\ \A t \in ReThreads : re_pc[t] = "remove" /\ Event(t).fd = f => f \in re_self' \/ re_conn[re_file[f]] = "handed"
  BY <1>1 DEF ReOwnerClose
<1>3. /\ re_file[f] \in Conns /\ re_conn[re_file[f]] \in {"left", "handed"}
      /\ re_file' = [re_file EXCEPT ![f] = 0] /\ re_reg' = [re_reg EXCEPT ![f] = "none"]
      /\ re_conn' = [re_conn EXCEPT ![re_file[f]] = "closed"]
      /\ re_slot' \in {re_slot, [re_slot EXCEPT ![f] = 0]}
      /\ re_fault' = (\E s \in ReThreads : re_pc[s] \in Handlers /\ re_copy[s] = re_file[f])
      /\ UNCHANGED <<re_running, re_pc, re_batch, re_copy, re_early>>
  BY <1>1 DEF ReOwnerClose, loopVars
<1> QED BY <1>2, <1>3, ReClosedStep

LEMMA ReWorkerClosesStep ==
  ASSUME ReInv, ~re_fault, NEW f \in ReFds, ReWorkerCloses(f)
  PROVE  ReInv'
<1>1. re_file[f] \in Conns /\ re_self \subseteq ReFds
  BY DEF ReInv, ReTypeOK, ReWorkerCloses
<1> QED BY <1>1, ReClosedStep DEF ReWorkerCloses, loopVars

LEMMA ReWorkerRearmsStep ==
  ASSUME ReInv, ~re_fault, NEW f \in ReFds, ReWorkerRearms(f)
  PROVE  ReInv'
<1>1. ReTypeOK /\ ReBatchInv /\ ReOpenInv /\ ReOneShotInv /\ ReRemoveInv /\ SlotIsCurrent /\ NotDropped
  BY DEF ReInv
<1> DEFINE c == re_file[f]
<1>2. /\ c # 0 /\ c \in Conns /\ re_conn[c] = "handed" /\ re_conn' = [re_conn EXCEPT ![c] = "added"]
      /\ re_reg' = [re_reg EXCEPT ![f] = IF re_reg[f] = "none" THEN "none" ELSE "armed"]
      /\ UNCHANGED <<re_running, re_file, re_slot, re_pc, re_batch, re_copy, re_early, re_self, re_fault>>
  BY <1>1 DEF ReWorkerRearms, Rearmed, ReArmed, loopVars, histVars, ReTypeOK
<1> HIDE DEF c
<1>3. /\ \A g \in ReFds : g # f => re_reg'[g] = re_reg[g]
      /\ re_reg'[f] = IF re_reg[f] = "none" THEN "none" ELSE "armed"
      /\ re_conn'[c] = "added" /\ \A d \in Conns : d # c => re_conn'[d] = re_conn[d]
  BY <1>1, <1>2 DEF ReTypeOK
<1>4. re_file[f] = c /\ \A g \in ReFds : g # f => re_file[g] # c
  BY <1>1, <1>2 DEF ReOpenInv, c
<1>5. \A t \in ReThreads : Event(t)' = Event(t) /\ \A g \in ReFds : Has(t, g)' <=> Has(t, g)
  BY <1>2, SameEvents
<1>6. f \notin re_early => \A t \in ReThreads : ~Has(t, f)
  BY <1>1, <1>2, <1>4 DEF ReOneShotInv
<1>7. ReTypeOK'
  BY <1>1, <1>2 DEF ReTypeOK
<1>8. ReBatchInv'
  BY <1>1, <1>2 DEF ReBatchInv
<1>9. ReOpenInv'
  BY <1>1, <1>2, <1>3, <1>4, <1>5 DEF ReOpenInv, ReTypeOK
<1>10. ReOneShotInv'
  BY <1>1, <1>2, <1>3, <1>4, <1>5, <1>6 DEF ReOneShotInv, ReTypeOK
<1>11. ReRemoveInv'
  BY <1>1, <1>2, <1>3, <1>4, <1>5 DEF ReRemoveInv, ReTypeOK
<1>12. SlotIsCurrent' /\ NotDropped'
  BY <1>1, <1>2, <1>3, <1>4 DEF SlotIsCurrent, NotDropped, ReTypeOK
<1> QED BY <1>7, <1>8, <1>9, <1>10, <1>11, <1>12 DEF ReInv

-----------------------------------------------------------------------------
(* The reactor: cx_reactor_run.                                             *)

LEMMA ReWaitStep ==
  ASSUME ReInv, ~re_fault, NEW t \in ReThreads, ReWait(t)
  PROVE  ReInv'
<1>1. ReTypeOK /\ ReBatchInv /\ ReOpenInv /\ ReOneShotInv /\ ReRemoveInv /\ SlotIsCurrent /\ NotDropped
  BY DEF ReInv
<1>2. PICK b \in Batches :
        /\ \A i \in DOMAIN b : re_reg[b[i].fd] \in {"armed", "always"}
        /\ re_batch' = [re_batch EXCEPT ![t] = b]
        /\ re_reg' = [f \in ReFds |-> IF re_reg[f] = "armed" /\ \E i \in DOMAIN b : b[i].fd = f
                                        THEN "off" ELSE re_reg[f]]
  BY DEF ReWait
<1>3. /\ re_pc' = [re_pc EXCEPT ![t] = "event"]
      /\ UNCHANGED <<re_running, re_file, re_conn, re_slot, re_copy, re_early, re_self, re_fault>>
  BY DEF ReWait, connVars, histVars
<1>4. PICK n \in 1 .. Cardinality(ReFds) :
        /\ b \in [1 .. n -> [fd : ReFds, ev : Events]]
        /\ \A i, j \in 1 .. n : b[i].fd = b[j].fd => i = j
  BY DEF Batches
<1>5. b \in Seq([fd : ReFds, ev : Events]) /\ b # <<>> /\ DOMAIN b = 1 .. n
  <2>1. n \in Nat /\ n >= 1
    BY ReAssumption, FS_CardinalityType
  <2>2. b \in Seq([fd : ReFds, ev : Events]) /\ DOMAIN b = 1 .. n /\ 1 \in DOMAIN b
    <3> DEFINE E == [fd : ReFds, ev : Events]
    <3>1. b \in [1 .. n -> E]
      BY <1>4
    <3> HIDE DEF E
    <3>2. b \in Seq(E) /\ DOMAIN b = 1 .. n
      BY <2>1, <3>1
    <3> QED BY <2>1, <3>2 DEF E
  <2> QED BY <2>2
<1> DEFINE W == {f \in ReFds : \E i \in DOMAIN b : b[i].fd = f}
<1>6. \A f \in W : re_reg[f] = "armed" /\ re_reg'[f] = "off"
  BY SMTT(30), <1>1, <1>2, <1>4, <1>5 DEF ReTypeOK
<1>7. \A f \in ReFds \ W : re_reg'[f] = re_reg[f]
  BY <1>2
<1>8. \A u \in ReThreads \ {t} : re_pc'[u] = re_pc[u] /\ re_batch'[u] = re_batch[u]
  BY <1>1, <1>2, <1>3 DEF ReTypeOK
<1>9. re_pc'[t] = "event" /\ re_batch'[t] = b
  BY <1>1, <1>2, <1>3 DEF ReTypeOK
<1>10. \A f \in ReFds : Has(t, f)' <=> f \in W
  BY <1>9 DEF Has
<1>11. \A u \in ReThreads \ {t} : Event(u)' = Event(u) /\ \A f \in ReFds : Has(u, f)' <=> Has(u, f)
  BY <1>8 DEF Event, Has
<1> HIDE DEF W
<1>12. ReTypeOK'
  BY <1>1, <1>2, <1>3, <1>5 DEF ReTypeOK
<1>13. ReBatchInv'
  BY <1>1, <1>4, <1>5, <1>8, <1>9 DEF ReBatchInv
<1>14. "event" \notin Handlers
  BY DEF Handlers
<1>15. ReOpenInv'
  BY <1>1, <1>3, <1>8, <1>9, <1>11, <1>14 DEF ReOpenInv
<1>16. ReOneShotInv'
  <2>1. W \subseteq ReFds
    BY DEF W
  <2>2. ASSUME NEW f \in ReFds \ re_early, f \in W
        PROVE  /\ \A u \in ReThreads : ~Has(u, f)
               /\ re_file[f] # 0 /\ re_conn[re_file[f]] = "added" /\ re_slot[f] = re_file[f]
    BY <1>1, <1>6, <2>2 DEF ReOneShotInv, SlotIsCurrent
  <2>3. ASSUME NEW f \in ReFds \ re_early
        PROVE  /\ \A r, u \in ReThreads : Has(r, f)' /\ Has(u, f)' => r = u
               /\ \A u \in ReThreads : Has(u, f)' =>
                    /\ re_file[f] # 0 /\ re_conn[re_file[f]] = "added"
                    /\ re_reg'[f] # "armed" /\ re_slot[f] \in {0, re_file[f]}
               /\ re_reg'[f] = "armed" => re_conn[re_file[f]] = "added"
    <3>1. CASE f \in W
      BY <1>6, <1>11, <2>2, <3>1
    <3>2. CASE f \notin W
      BY <1>1, <1>7, <1>10, <1>11, <3>2 DEF ReOneShotInv
    <3> QED BY <3>1, <3>2
  <2> QED BY <1>1, <1>3, <2>3 DEF ReOneShotInv
<1>17. ReRemoveInv'
  BY <1>1, <1>3, <1>8, <1>9, <1>11 DEF ReRemoveInv
<1>18. SlotIsCurrent' /\ NotDropped'
  <2>1. \A f \in ReFds : re_reg'[f] # "none" <=> re_reg[f] # "none"
    BY <1>6, <1>7
  <2> QED BY <1>1, <1>3, <2>1 DEF SlotIsCurrent, NotDropped
<1> QED BY <1>12, <1>13, <1>15, <1>16, <1>17, <1>18 DEF ReInv

LEMMA ReExitStep ==
  ASSUME ReInv, ~re_fault, NEW t \in ReThreads, ReExit(t)
  PROVE  ReInv'
<1>1. ReTypeOK /\ ReBatchInv /\ ReOpenInv /\ ReOneShotInv /\ ReRemoveInv /\ SlotIsCurrent /\ NotDropped
  BY DEF ReInv
<1>2. /\ re_pc[t] = "loop" /\ re_pc' = [re_pc EXCEPT ![t] = "exit"]
      /\ UNCHANGED <<re_running, re_file, re_conn, re_slot, re_reg, re_batch, re_copy, re_early, re_self, re_fault>>
  BY DEF ReExit, connVars, histVars
<1>3. "exit" \notin Handlers
  BY DEF Handlers
<1>4. re_pc'[t] = "exit" /\ \A u \in ReThreads : u # t => re_pc'[u] = re_pc[u]
  BY <1>1, <1>2 DEF ReTypeOK
<1>5. \A u \in ReThreads : Event(u)' = Event(u) /\ \A f \in ReFds : Has(u, f)' <=> Has(u, f)
  BY <1>2, <1>4 DEF Event, Has
<1>6. ReTypeOK' /\ ReBatchInv'
  BY <1>1, <1>2, <1>3, <1>4 DEF ReTypeOK, ReBatchInv
<1>7. ReOpenInv' /\ ReRemoveInv'
  BY <1>1, <1>2, <1>3, <1>4, <1>5 DEF ReOpenInv, ReRemoveInv
<1>8. ReOneShotInv' /\ SlotIsCurrent' /\ NotDropped'
  BY <1>1, <1>2, <1>5 DEF ReOneShotInv, SlotIsCurrent, NotDropped
<1> QED BY <1>6, <1>7, <1>8 DEF ReInv

LEMMA ReStopStep ==
  ASSUME ReInv, ~re_fault, ReStop
  PROVE  ReInv'
<1>1. /\ re_running' = FALSE
      /\ UNCHANGED <<re_file, re_conn, re_slot, re_reg, re_pc, re_batch, re_copy, re_early, re_self, re_fault>>
  BY DEF ReStop, connVars, loopVars, histVars
<1>2. \A u \in ReThreads : Event(u)' = Event(u) /\ \A f \in ReFds : Has(u, f)' <=> Has(u, f)
  BY <1>1, SameEvents
<1>3. ReTypeOK' /\ ReBatchInv' /\ SlotIsCurrent' /\ NotDropped'
  BY <1>1 DEF ReInv, ReTypeOK, ReBatchInv, SlotIsCurrent, NotDropped
<1>4. ReOpenInv' /\ ReRemoveInv'
  BY <1>1, <1>2 DEF ReInv, ReOpenInv, ReRemoveInv
<1>5. ReOneShotInv'
  BY <1>1, <1>2 DEF ReInv, ReOneShotInv
<1> QED BY <1>3, <1>4, <1>5 DEF ReInv

LEMMA ReCopySlotStep ==
  ASSUME ReInv, ~re_fault, NEW t \in ReThreads, ReCopySlot(t)
  PROVE  ReInv'
<1> DEFINE f == Event(t).fd
           copy == re_slot[f]
           pc == AfterHandler(t, "none", copy)
<1>1. ReTypeOK /\ ReBatchInv /\ ReOpenInv /\ ReOneShotInv /\ ReRemoveInv /\ SlotIsCurrent /\ NotDropped
  BY DEF ReInv
<1>2. /\ re_pc[t] = "event" /\ Goto(t, pc, copy)
      /\ UNCHANGED <<re_running, re_file, re_conn, re_slot, re_reg, re_early, re_self>>
  BY DEF ReCopySlot, connVars
<1>3. f \in ReFds /\ Has(t, f)
  BY <1>1, <1>2, EventFacts
<1>4. copy \in Conns \cup {0}
  BY <1>1, <1>3 DEF ReTypeOK
<1>5. /\ pc \in {"next", "remove"} \cup Handlers
      /\ pc \in Handlers => copy # 0
      /\ pc = "remove" => copy = 0
  BY DEF AfterHandler, Handlers
<1>6. "remove" \notin Handlers /\ "next" \notin Handlers /\ "loop" \notin Handlers /\ "event" \notin Handlers
  BY DEF Handlers
<1> HIDE DEF pc
<1>7. /\ re_pc' \in [ReThreads -> {"loop", "event", "remove", "exit"} \cup Handlers]
      /\ re_batch' \in [ReThreads -> Seq([fd : ReFds, ev : Events])]
      /\ re_copy' \in [ReThreads -> Conns \cup {0}]
      /\ re_fault' \in BOOLEAN
      /\ ReBatchInv'
      /\ pc # "next" => re_pc'[t] = pc /\ re_copy'[t] = copy /\ Event(t)' = Event(t)
      /\ pc = "next" => re_pc'[t] \in {"loop", "event"}
      /\ \A g \in ReFds : Has(t, g)' => Has(t, g)
      /\ \A u \in ReThreads \ {t} :
           /\ re_pc'[u] = re_pc[u] /\ re_copy'[u] = re_copy[u] /\ Event(u)' = Event(u)
           /\ \A g \in ReFds : Has(u, g)' <=> Has(u, g)
  BY <1>1, <1>2, <1>4, <1>5, GotoFacts
<1>8. re_fault' => pc \in Handlers /\ re_conn[copy] = "closed"
  <2>1. \A s \in ReThreads : re_pc[s] \in Handlers => re_conn[re_copy[s]] # "closed"
    BY <1>1 DEF ReOpenInv
  <2> QED BY <1>2, <2>1 DEF Goto
<1>9. pc \in Handlers /\ re_conn[copy] = "closed" => re_fault'
  BY <1>2 DEF Goto
<1>10. f \notin re_early => copy \in {0, re_file[f]} /\ re_file[f] # 0 /\ re_conn[re_file[f]] = "added"
  BY <1>1, <1>3 DEF ReOneShotInv
<1>11. copy # 0 => re_conn[copy] # "unborn" /\ \A g \in ReFds : re_file[g] = copy => g = f
  BY <1>1, <1>3 DEF ReOpenInv
<1>12. pc = "remove" => f \in re_self \cup re_early
  <2> SUFFICES ASSUME pc = "remove", f \notin re_self \cup re_early PROVE FALSE
    OBVIOUS
  <2>1. re_reg[f] # "none"
    BY <1>1, <1>3, <1>10 DEF NotDropped
  <2> QED BY <1>1, <1>3, <1>5, <2>1 DEF SlotIsCurrent
<1> HIDE DEF f, copy
<1>13. f = Event(t).fd
  BY DEF f
<1>14. ReTypeOK'
  BY <1>1, <1>2, <1>7 DEF ReTypeOK
<1>15. ReOpenInv'
  <2>1. ASSUME NEW u \in ReThreads, re_pc'[u] \in Handlers
        PROVE  /\ re_copy'[u] # 0 /\ re_conn[re_copy'[u]] # "unborn"
               /\ \A g \in ReFds : re_file[g] = re_copy'[u] => g = Event(u)'.fd
               /\ ~re_fault' => re_conn[re_copy'[u]] # "closed"
    <3>1. CASE u = t
      <4>1. pc \in Handlers /\ re_copy'[t] = copy /\ Event(t)' = Event(t)
        BY <1>5, <1>6, <1>7, <2>1, <3>1
      <4> QED BY <1>5, <1>9, <1>11, <1>13, <3>1, <4>1
    <3>2. CASE u # t
      BY <1>1, <1>7, <2>1, <3>2 DEF ReOpenInv
    <3> QED BY <3>1, <3>2
  <2> QED BY <1>1, <1>2, <2>1 DEF ReOpenInv
<1>16. ReOneShotInv'
  <2>1. re_fault' => re_early # {}
    BY <1>5, <1>8, <1>10
  <2>2. \A u \in ReThreads, g \in ReFds : Has(u, g)' => Has(u, g)
    BY <1>7
  <2> QED BY <1>1, <1>2, <2>1, <2>2 DEF ReOneShotInv
<1>17. ReRemoveInv'
  <2> SUFFICES ASSUME NEW g \in ReFds \ (re_self \cup re_early), NEW u \in ReThreads,
                      re_pc'[u] = "remove", Event(u)'.fd = g
               PROVE  re_file[g] # 0 /\ re_conn[re_file[g]] = "left"
    BY <1>2 DEF ReRemoveInv
  <2>1. u # t
    BY <1>5, <1>6, <1>7, <1>12, <1>13
  <2> QED BY <1>1, <1>7, <2>1 DEF ReRemoveInv
<1>18. SlotIsCurrent' /\ NotDropped'
  BY <1>1, <1>2 DEF SlotIsCurrent, NotDropped
<1> QED BY <1>7, <1>14, <1>15, <1>16, <1>17, <1>18 DEF ReInv

LEMMA ReRemoveStep ==
  ASSUME ReInv, ~re_fault, NEW t \in ReThreads, ReRemove(t)
  PROVE  ReInv'
<1> DEFINE f == Event(t).fd
<1>1. ReTypeOK /\ ReBatchInv /\ ReOpenInv /\ ReOneShotInv /\ ReRemoveInv /\ SlotIsCurrent /\ NotDropped
  BY DEF ReInv
<1>2. /\ re_pc[t] = "remove" /\ Goto(t, "next", 0)
      /\ re_reg' = [re_reg EXCEPT ![f] = "none"] /\ re_slot' = [re_slot EXCEPT ![f] = 0]
      /\ UNCHANGED <<re_running, re_file, re_conn, re_early, re_self>>
  BY DEF ReRemove, connVars
<1>3. f \in ReFds
  BY <1>1, <1>2, EventFacts
<1>4. "remove" \notin Handlers /\ "next" \notin Handlers /\ "loop" \notin Handlers /\ "event" \notin Handlers
  BY DEF Handlers
<1>5. /\ re_pc' \in [ReThreads -> {"loop", "event", "remove", "exit"} \cup Handlers]
      /\ re_batch' \in [ReThreads -> Seq([fd : ReFds, ev : Events])]
      /\ re_copy' \in [ReThreads -> Conns \cup {0}]
      /\ re_fault' \in BOOLEAN
      /\ ReBatchInv'
      /\ re_pc'[t] \in {"loop", "event"}
      /\ \A g \in ReFds : Has(t, g)' => Has(t, g)
      /\ \A u \in ReThreads \ {t} :
           /\ re_pc'[u] = re_pc[u] /\ re_copy'[u] = re_copy[u] /\ Event(u)' = Event(u)
           /\ \A g \in ReFds : Has(u, g)' <=> Has(u, g)
  BY <1>1, <1>2, GotoFacts
<1>6. re_fault' = FALSE
  <2>1. \A s \in ReThreads : re_pc[s] \in Handlers => re_conn[re_copy[s]] # "closed"
    BY <1>1 DEF ReOpenInv
  <2> QED BY <1>2, <1>4, <2>1 DEF Goto
<1>7. f \notin re_self \cup re_early => re_conn[re_file[f]] = "left"
  BY <1>1, <1>2, <1>3 DEF ReRemoveInv
<1> HIDE DEF f
<1>8. /\ re_reg'[f] = "none" /\ re_slot'[f] = 0
      /\ \A g \in ReFds : g # f => re_reg'[g] = re_reg[g] /\ re_slot'[g] = re_slot[g]
  BY <1>1, <1>2, <1>3 DEF ReTypeOK
<1>9. ReTypeOK'
  BY <1>1, <1>2, <1>3, <1>5 DEF ReTypeOK
<1>10. ReOpenInv'
  <2>1. ASSUME NEW u \in ReThreads, re_pc'[u] \in Handlers
        PROVE  u # t /\ re_pc[u] \in Handlers /\ re_copy'[u] = re_copy[u] /\ Event(u)' = Event(u)
    BY <1>4, <1>5, <2>1
  <2> QED BY <1>1, <1>2, <1>8, <2>1 DEF ReOpenInv
<1>11. ReOneShotInv'
  <2>1. \A u \in ReThreads, g \in ReFds : Has(u, g)' => Has(u, g)
    BY <1>5
  <2> QED BY <1>1, <1>2, <1>6, <1>8, <2>1 DEF ReOneShotInv
<1>12. ReRemoveInv'
  <2>1. ASSUME NEW u \in ReThreads, re_pc'[u] = "remove" PROVE re_pc[u] = "remove" /\ Event(u)' = Event(u)
    BY <1>5, <2>1
  <2> QED BY <1>1, <1>2, <2>1 DEF ReRemoveInv
<1>13. SlotIsCurrent' /\ NotDropped'
  BY <1>1, <1>2, <1>7, <1>8 DEF SlotIsCurrent, NotDropped
<1> QED BY <1>5, <1>9, <1>10, <1>11, <1>12, <1>13 DEF ReInv

(* A handler runs with the connection that is open at the descriptor of its *)
(* event.                                                                   *)
LEMMA HandlerFacts ==
  ASSUME ReInv, ~re_fault, NEW t \in ReThreads, re_pc[t] \in Handlers,
         NEW f, f = Event(t).fd, NEW c, c = re_copy[t]
  PROVE  /\ f \in ReFds /\ c \in Conns /\ c # 0 /\ re_file[f] = c
         /\ re_conn[c] \notin {"unborn", "closed"}
         /\ \A g \in ReFds : g # f => re_file[g] # c
         /\ f \notin re_early =>
              /\ re_conn[c] = "added" /\ re_reg[f] # "armed" /\ re_slot[f] \in {0, c}
              /\ \A u \in ReThreads \ {t} : ~Has(u, f)
         /\ \A s \in ReThreads \ {t} : re_pc[s] \in Handlers /\ re_copy[s] = c => f \in re_early
<1>1. ReTypeOK /\ ReBatchInv /\ ReOpenInv /\ ReOneShotInv /\ ReRemoveInv /\ SlotIsCurrent /\ NotDropped
  BY DEF ReInv
<1>2. f \in ReFds /\ Has(t, f)
  BY <1>1, EventFacts DEF Handlers
<1>3. c \in Conns /\ c # 0 /\ re_conn[c] \notin {"unborn", "closed"} /\ \A g \in ReFds : re_file[g] = c => g = f
  BY <1>1 DEF ReTypeOK, ReOpenInv
<1>4. re_file[f] = c
  BY <1>1, <1>3 DEF ReOpenInv
<1>5. f \notin re_early =>
        /\ re_conn[c] = "added" /\ re_reg[f] # "armed" /\ re_slot[f] \in {0, c}
        /\ \A u \in ReThreads \ {t} : ~Has(u, f)
  BY <1>1, <1>2, <1>4 DEF ReOneShotInv
<1>6. ASSUME NEW s \in ReThreads \ {t}, re_pc[s] \in Handlers, re_copy[s] = c PROVE f \in re_early
  <2>1. Event(s).fd = f
    BY <1>1, <1>2, <1>4, <1>6 DEF ReOpenInv
  <2>2. Has(s, f)
    BY <1>1, <1>6, <2>1, EventFacts DEF Handlers
  <2> QED BY <1>5, <2>2
<1> QED BY <1>2, <1>3, <1>4, <1>5, <1>6

(* What the return of a handler does to the events and to the history. *)
HandlerReturned(t, f, c) ==
    /\ re_pc' \in [ReThreads -> {"loop", "event", "remove", "exit"} \cup Handlers]
    /\ re_batch' \in [ReThreads -> Seq([fd : ReFds, ev : Events])]
    /\ re_copy' \in [ReThreads -> Conns \cup {0}]
    /\ re_fault' \in BOOLEAN
    /\ ReBatchInv'
    /\ re_pc[t] = "on_close" <=> re_pc'[t] = "remove"
    /\ re_pc'[t] \in Handlers \cup {"remove"} => re_copy'[t] = c /\ Event(t)' = Event(t)
    /\ \A u \in ReThreads, g \in ReFds : Has(u, g)' => Has(u, g)
    /\ f \notin re_early' => ~Has(t, f)' /\ re_pc'[t] \notin Handlers
    /\ \A u \in ReThreads \ {t} :
         re_pc'[u] = re_pc[u] /\ re_copy'[u] = re_copy[u] /\ Event(u)' = Event(u)
    /\ re_early \subseteq re_early' /\ re_early' \subseteq ReFds
    /\ \A u \in ReThreads : re_pc'[u] \in Handlers /\ re_conn'[re_copy'[u]] = "closed" => re_fault'
    /\ re_fault' => \E u \in ReThreads :
         /\ re_pc[u] \in Handlers /\ re_conn'[re_copy[u]] = "closed"
         /\ u = t => f \in re_early'

(* When a handler returns, its descriptor is given up, or is known to be   *)
(* one that was given away too early.                                      *)
LEMMA ReturnsFacts ==
  ASSUME ReInv, ~re_fault, NEW t \in ReThreads, re_pc[t] \in Handlers,
         NEW f, f = Event(t).fd, NEW c, c = re_copy[t], Returns(t),
         Early(t) \/ (re_pc[t] = "on_close" /\ re_early' = re_early)
  PROVE  HandlerReturned(t, f, c)
<1> DEFINE pc == AfterHandler(t, re_pc[t], c)
<1>1. ReTypeOK /\ ReBatchInv /\ ReOpenInv /\ ReOneShotInv /\ ReRemoveInv /\ SlotIsCurrent /\ NotDropped
  BY DEF ReInv
<1>2. Goto(t, pc, c)
  BY DEF Returns
<1>3. f \in ReFds /\ c \in Conns /\ c # 0
  BY HandlerFacts
<1>4. re_pc[t] \in {"on_read", "on_write", "on_close"} /\ Handlers = {"on_read", "on_write", "on_close"}
  BY DEF Handlers
<1>5. /\ pc \in {"next", "remove", "on_write"}
      /\ pc = "remove" <=> re_pc[t] = "on_close"
      /\ pc = "on_write" => re_pc[t] = "on_read" /\ "out" \in Event(t).ev
  BY <1>4 DEF AfterHandler
<1> HIDE DEF pc
<1>6. /\ re_early \subseteq re_early' /\ re_early' \subseteq ReFds
      /\ pc = "on_write" => f \in re_early'
  BY <1>1, <1>3, <1>5 DEF Early, ReTypeOK
<1>7. /\ re_pc' \in [ReThreads -> {"loop", "event", "remove", "exit"} \cup Handlers]
      /\ re_batch' \in [ReThreads -> Seq([fd : ReFds, ev : Events])]
      /\ re_copy' \in [ReThreads -> Conns \cup {0}]
      /\ re_fault' \in BOOLEAN
      /\ ReBatchInv'
      /\ pc # "next" => re_pc'[t] = pc /\ re_copy'[t] = c /\ Event(t)' = Event(t)
      /\ pc = "next" => re_pc'[t] \in {"loop", "event"}
      /\ \A g \in ReFds : Has(t, g)' => Has(t, g) /\ (pc \notin Handlers => g # f)
      /\ \A u \in ReThreads \ {t} :
           /\ re_pc'[u] = re_pc[u] /\ re_copy'[u] = re_copy[u] /\ Event(u)' = Event(u)
           /\ \A g \in ReFds : Has(u, g)' <=> Has(u, g)
  <2>1. pc \in {"next", "remove"} \cup Handlers /\ c \in Conns \cup {0} /\ re_pc[t] # "remove"
    BY <1>3, <1>4, <1>5
  <2>2. re_pc[t] \in {"event", "remove"} \cup Handlers
    OBVIOUS
  <2> QED BY <1>1, <1>2, <2>1, <2>2, GotoFacts
<1>8. re_fault' = (\/ pc \in Handlers /\ re_conn'[c] = "closed"
                   \/ \E s \in ReThreads \ {t} : re_pc[s] \in Handlers /\ re_conn'[re_copy[s]] = "closed")
  BY <1>2 DEF Goto
<1>9. \A u \in ReThreads : re_pc'[u] \in Handlers /\ re_conn'[re_copy'[u]] = "closed" => re_fault'
  BY <1>4, <1>5, <1>7, <1>8
<1>10. re_fault' => \E u \in ReThreads :
              /\ re_pc[u] \in Handlers /\ re_conn'[re_copy[u]] = "closed"
              /\ u = t => f \in re_early'
  <2>1. CASE pc \in Handlers /\ re_conn'[c] = "closed"
    BY <1>4, <1>5, <1>6, <2>1
  <2>2. CASE \E s \in ReThreads \ {t} : re_pc[s] \in Handlers /\ re_conn'[re_copy[s]] = "closed"
    BY <2>2
  <2> QED BY <1>8, <2>1, <2>2
<1>11. re_pc[t] = "on_close" <=> re_pc'[t] = "remove"
  BY <1>5, <1>7
<1>12. re_pc'[t] \in Handlers \cup {"remove"} => re_copy'[t] = c /\ Event(t)' = Event(t)
  BY <1>4, <1>5, <1>7
<1>13. f \notin re_early' => ~Has(t, f)' /\ re_pc'[t] \notin Handlers
  <2> SUFFICES ASSUME f \notin re_early' PROVE pc \notin Handlers /\ re_pc'[t] \notin Handlers
    BY <1>3, <1>7
  <2> QED BY <1>4, <1>5, <1>6, <1>7
<1> QED BY <1>6, <1>7, <1>9, <1>10, <1>11, <1>12, <1>13 DEF HandlerReturned

(* What the four ways to end a handler have in common. *)
LEMMA HandlerStep ==
  ASSUME ReInv, ~re_fault, NEW t \in ReThreads, re_pc[t] \in Handlers,
         NEW f, f = Event(t).fd, NEW c, c = re_copy[t], Returns(t),
         Early(t) \/ (re_pc[t] = "on_close" /\ re_early' = re_early),
         ReTypeOK \* the types of what the handler changes
           => /\ re_running' \in BOOLEAN /\ re_file' \in [ReFds -> Conns \cup {0}]
              /\ re_slot' \in [ReFds -> Conns \cup {0}]
              /\ re_conn' \in [Conns -> {"unborn", "new", "added", "handed", "left", "closed"}]
              /\ re_reg' \in [ReFds -> {"none", "armed", "off"}] /\ re_self' \subseteq ReFds,
         \A g \in ReFds : g # f =>
           re_file'[g] = re_file[g] /\ re_slot'[g] = re_slot[g] /\ re_reg'[g] = re_reg[g],
         \A d \in Conns : d # c => re_conn'[d] = re_conn[d],
         \/ re_file'[f] = c /\ re_conn'[c] \notin {"unborn", "closed"} /\ re_slot'[f] = re_slot[f]
         \/ re_file'[f] = 0 /\ re_conn'[c] = "closed" /\ re_slot'[f] = 0 /\ re_reg'[f] = "none",
         re_reg'[f] # "none" => re_reg[f] # "none",
         re_reg[f] # "none" /\ re_conn'[c] # "closed" => re_reg'[f] # "none",
         re_reg'[f] = "armed" /\ re_reg[f] # "armed" => re_conn'[c] = re_conn[c],
         re_self \subseteq re_self',
         re_pc[t] = "on_close" => re_conn'[c] = "left" \/ f \in re_self'
  PROVE  ReInv'
<1>1. ReTypeOK /\ ReBatchInv /\ ReOpenInv /\ ReOneShotInv /\ ReRemoveInv /\ SlotIsCurrent /\ NotDropped
  BY DEF ReInv
<1>2. /\ f \in ReFds /\ c \in Conns /\ c # 0 /\ re_file[f] = c
      /\ re_conn[c] \notin {"unborn", "closed"}
      /\ \A g \in ReFds : g # f => re_file[g] # c
      /\ f \notin re_early =>
           /\ re_conn[c] = "added" /\ re_reg[f] # "armed" /\ re_slot[f] \in {0, c}
           /\ \A u \in ReThreads \ {t} : ~Has(u, f)
      /\ \A s \in ReThreads \ {t} : re_pc[s] \in Handlers /\ re_copy[s] = c => f \in re_early
  BY HandlerFacts
<1>3. /\ re_pc' \in [ReThreads -> {"loop", "event", "remove", "exit"} \cup Handlers]
      /\ re_batch' \in [ReThreads -> Seq([fd : ReFds, ev : Events])]
      /\ re_copy' \in [ReThreads -> Conns \cup {0}]
      /\ re_fault' \in BOOLEAN
      /\ ReBatchInv'
      /\ re_pc[t] = "on_close" <=> re_pc'[t] = "remove"
      /\ re_pc'[t] \in Handlers \cup {"remove"} => re_copy'[t] = c /\ Event(t)' = Event(t)
      /\ \A u \in ReThreads, g \in ReFds : Has(u, g)' => Has(u, g)
      /\ f \notin re_early' => ~Has(t, f)' /\ re_pc'[t] \notin Handlers
      /\ \A u \in ReThreads \ {t} :
           re_pc'[u] = re_pc[u] /\ re_copy'[u] = re_copy[u] /\ Event(u)' = Event(u)
      /\ re_early \subseteq re_early' /\ re_early' \subseteq ReFds
      /\ \A u \in ReThreads : re_pc'[u] \in Handlers /\ re_conn'[re_copy'[u]] = "closed" => re_fault'
      /\ re_fault' => \E u \in ReThreads :
           /\ re_pc[u] \in Handlers /\ re_conn'[re_copy[u]] = "closed"
           /\ u = t => f \in re_early'
  <2>1. HandlerReturned(t, f, c)
    BY ReturnsFacts
  <2> QED BY ONLY <2>1 DEF HandlerReturned
<1>4. ReTypeOK'
  BY <1>1, <1>3 DEF ReTypeOK
<1>5. re_slot[f] # 0 => re_conn[re_slot[f]] # "unborn" /\ \A g \in ReFds : re_file[g] = re_slot[f] => g = f
  BY <1>1, <1>2 DEF ReOpenInv
<1>6. ReOpenInv'
  <2>1. \A g \in ReFds : re_file'[g] # 0 => re_conn'[re_file'[g]] \notin {"unborn", "closed"}
    <3>1. re_file'[f] # 0 => re_conn'[re_file'[f]] \notin {"unborn", "closed"}
      OBVIOUS
    <3>2. ASSUME NEW g \in ReFds, g # f, re_file[g] # 0 PROVE re_conn'[re_file[g]] \notin {"unborn", "closed"}
      BY <1>1, <1>2, <3>2 DEF ReOpenInv, ReTypeOK
    <3> QED BY <3>1, <3>2
  <2>2. \A d \in Conns : re_conn'[d] \notin {"unborn", "closed"} => \E g \in ReFds : re_file'[g] = d
    <3> SUFFICES ASSUME NEW d \in Conns, re_conn'[d] \notin {"unborn", "closed"}
                 PROVE  \E g \in ReFds : re_file'[g] = d
      OBVIOUS
    <3>1. CASE d = c
      BY <1>2, <3>1
    <3>2. CASE d # c
      <4>1. PICK g \in ReFds : re_file[g] = d
        BY <1>1, <3>2 DEF ReOpenInv
      <4> QED BY <1>2, <3>2, <4>1
    <3> QED BY <3>1, <3>2
  <2>3. \A g, h \in ReFds : re_file'[g] # 0 /\ re_file'[g] = re_file'[h] => g = h
    BY <1>1, <1>2 DEF ReOpenInv
  <2>4. \A d \in Conns : re_conn[d] # "unborn" => re_conn'[d] # "unborn"
    BY <1>2
  <2>5. \A g \in ReFds : re_slot'[g] # 0 =>
          re_conn'[re_slot'[g]] # "unborn" /\ \A h \in ReFds : re_file'[h] = re_slot'[g] => h = g
    BY SMTT(30), <1>1, <1>2, <1>5, <2>4 DEF ReOpenInv, ReTypeOK
  <2>6. ASSUME NEW u \in ReThreads, re_pc'[u] \in Handlers
        PROVE  /\ re_copy'[u] # 0 /\ re_conn'[re_copy'[u]] # "unborn"
               /\ \A g \in ReFds : re_file'[g] = re_copy'[u] => g = Event(u)'.fd
               /\ ~re_fault' => re_conn'[re_copy'[u]] # "closed"
    <3>1. CASE u = t
      BY <1>2, <1>3, <2>6, <3>1
    <3>2. CASE u # t
      <4>1. /\ re_copy[u] \in Conns /\ re_copy[u] # 0 /\ re_conn[re_copy[u]] # "unborn"
            /\ \A g \in ReFds : re_file[g] = re_copy[u] => g = Event(u).fd
            /\ re_copy'[u] = re_copy[u] /\ Event(u)' = Event(u)
        BY <1>1, <1>3, <2>6, <3>2 DEF ReOpenInv, ReTypeOK
      <4> QED BY <1>2, <1>3, <2>4, <2>6, <4>1
    <3> QED BY <3>1, <3>2
  <2> QED BY <2>1, <2>2, <2>3, <2>5, <2>6 DEF ReOpenInv
<1>7. \A g \in ReFds : g # f /\ re_file[g] # 0 => re_conn'[re_file[g]] = re_conn[re_file[g]]
  BY <1>1, <1>2 DEF ReTypeOK
<1>8. \A g \in ReFds : re_reg[g] # "none" => re_file[g] # 0
  BY <1>1 DEF SlotIsCurrent
<1>9. ReOneShotInv'
  <2>1. re_fault' => re_early' # {}
    <3> SUFFICES ASSUME re_fault', f \notin re_early' PROVE FALSE
      OBVIOUS
    <3>1. PICK u \in ReThreads \ {t} : re_pc[u] \in Handlers /\ re_conn'[re_copy[u]] = "closed"
      BY <1>3
    <3>2. re_copy[u] # c
      BY <1>2, <1>3, <3>1
    <3>3. re_copy[u] \in Conns /\ re_conn[re_copy[u]] # "closed"
      BY <1>1, <3>1 DEF ReOpenInv, ReTypeOK
    <3> QED BY <3>1, <3>2, <3>3
  <2>2. ASSUME NEW g \in ReFds \ re_early'
        PROVE  /\ \A r, u \in ReThreads : Has(r, g)' /\ Has(u, g)' => r = u
               /\ \A u \in ReThreads : Has(u, g)' =>
                    /\ re_file'[g] # 0 /\ re_conn'[re_file'[g]] = "added"
                    /\ re_reg'[g] # "armed" /\ re_slot'[g] \in {0, re_file'[g]}
               /\ re_reg'[g] = "armed" => re_conn'[re_file'[g]] = "added"
    <3>0. g \in ReFds \ re_early
      BY <1>3
    <3>1. CASE g = f
      <4>1. \A u \in ReThreads : ~Has(u, f)'
        BY <1>2, <1>3, <3>0, <3>1
      <4>2. re_reg'[f] = "armed" => re_file'[f] = c /\ re_conn'[c] = "added"
        BY <1>2, <3>0, <3>1
      <4> QED BY <3>1, <4>1, <4>2
    <3>2. CASE g # f
      <4>1. /\ \A r, u \in ReThreads : Has(r, g) /\ Has(u, g) => r = u
            /\ \A u \in ReThreads : Has(u, g) =>
                 /\ re_file[g] # 0 /\ re_conn[re_file[g]] = "added"
                 /\ re_reg[g] # "armed" /\ re_slot[g] \in {0, re_file[g]}
            /\ re_reg[g] = "armed" => re_conn[re_file[g]] = "added"
        BY <1>1, <3>0 DEF ReOneShotInv
      <4>2. /\ re_file'[g] = re_file[g] /\ re_slot'[g] = re_slot[g] /\ re_reg'[g] = re_reg[g]
            /\ re_file[g] # 0 => re_conn'[re_file[g]] = re_conn[re_file[g]]
            /\ re_reg[g] = "armed" => re_file[g] # 0
            /\ \A u \in ReThreads : Has(u, g)' => Has(u, g)
        BY <1>3, <1>7, <1>8, <3>0, <3>2
      <4> QED BY <4>1, <4>2
    <3> QED BY <3>1, <3>2
  <2> QED BY <2>1, <2>2 DEF ReOneShotInv
<1>10. ReRemoveInv'
  <2> SUFFICES ASSUME NEW g \in ReFds \ (re_self' \cup re_early'), NEW u \in ReThreads,
                      re_pc'[u] = "remove", Event(u)'.fd = g
               PROVE  re_file'[g] # 0 /\ re_conn'[re_file'[g]] = "left"
    BY DEF ReRemoveInv
  <2>1. CASE u = t
    <3>1. g = f /\ re_pc[t] = "on_close"
      BY <1>3, <2>1
    <3> QED BY <1>2, <3>1
  <2>2. CASE u # t
    <3>1. g \in ReFds \ (re_self \cup re_early) /\ re_pc[u] = "remove" /\ Event(u).fd = g
      BY <1>3, <2>2
    <3>2. re_file[g] # 0 /\ re_conn[re_file[g]] = "left"
      BY <1>1, <3>1 DEF ReRemoveInv
    <3>3. g # f
      BY <1>2, <3>1, <3>2
    <3> QED BY <1>7, <3>2, <3>3
  <2> QED BY <2>1, <2>2
<1>11. SlotIsCurrent'
  BY <1>1, <1>2 DEF SlotIsCurrent
<1>12. NotDropped'
  <2> SUFFICES ASSUME NEW g \in ReFds \ (re_self' \cup re_early'),
                      re_file'[g] # 0, re_conn'[re_file'[g]] \in {"added", "handed"}
               PROVE  re_reg'[g] # "none"
    BY DEF NotDropped
  <2>0. g \in ReFds \ (re_self \cup re_early)
    BY <1>3
  <2>1. CASE g = f
    <3>1. re_reg[f] # "none"
      BY <1>1, <1>2, <2>0, <2>1 DEF NotDropped
    <3> QED BY <2>1, <3>1
  <2>2. CASE g # f
    BY <1>1, <1>7, <2>0, <2>2 DEF NotDropped
  <2> QED BY <2>1, <2>2
<1> QED BY <1>3, <1>4, <1>6, <1>9, <1>10, <1>11, <1>12 DEF ReInv

LEMMA ReHandlerRearmsStep ==
  ASSUME ReInv, ~re_fault, NEW t \in ReThreads, ReHandlerRearms(t)
  PROVE  ReInv'
<1>1. PICK f, c : f = Event(t).fd /\ c = re_copy[t]
  OBVIOUS
<1>2. /\ re_pc[t] \in Handlers /\ Returns(t)
      /\ Early(t)
      /\ re_reg' = [re_reg EXCEPT ![f] = IF re_reg[f] = "none" THEN "none" ELSE "armed"]
      /\ re_pc[t] # "on_close"
      /\ UNCHANGED <<re_running, re_file, re_conn, re_slot, re_self>>
  BY <1>1 DEF ReHandlerRearms, Rearmed, ReArmed, connVars, Handlers
<1>3. ReTypeOK /\ f \in ReFds /\ c \in Conns /\ re_file[f] = c /\ re_conn[c] \notin {"unborn", "closed"}
  BY <1>1, <1>2, HandlerFacts DEF ReInv
<1>4. /\ re_running' \in BOOLEAN /\ re_file' \in [ReFds -> Conns \cup {0}]
      /\ re_slot' \in [ReFds -> Conns \cup {0}]
      /\ re_conn' \in [Conns -> {"unborn", "new", "added", "handed", "left", "closed"}]
      /\ re_reg' \in [ReFds -> {"none", "armed", "off"}] /\ re_self' \subseteq ReFds
  BY <1>2, <1>3 DEF ReTypeOK
<1>5. /\ \A g \in ReFds : g # f =>
           re_file'[g] = re_file[g] /\ re_slot'[g] = re_slot[g] /\ re_reg'[g] = re_reg[g]
      /\ \A d \in Conns : d # c => re_conn'[d] = re_conn[d]
  BY <1>2, <1>3 DEF ReTypeOK
<1>6. re_file'[f] = c /\ re_conn'[c] = re_conn[c] /\ re_slot'[f] = re_slot[f]
      /\ (re_reg'[f] = "none" <=> re_reg[f] = "none")
  BY <1>2, <1>3 DEF ReTypeOK
<1> QED BY <1>1, <1>2, <1>3, <1>4, <1>5, <1>6, HandlerStep

LEMMA ReHandlerHandsOverStep ==
  ASSUME ReInv, ~re_fault, NEW t \in ReThreads, ReHandlerHandsOver(t)
  PROVE  ReInv'
<1>1. PICK f, c : f = Event(t).fd /\ c = re_copy[t]
  OBVIOUS
<1>2. /\ re_pc[t] \in Handlers /\ Returns(t)
      /\ Early(t)
      /\ re_conn' = [re_conn EXCEPT ![c] = "handed"] /\ re_pc[t] # "on_close"
      /\ UNCHANGED <<re_running, re_file, re_slot, re_reg, re_self>>
  BY <1>1 DEF ReHandlerHandsOver, Handlers
<1>3. ReTypeOK /\ f \in ReFds /\ c \in Conns /\ re_file[f] = c /\ re_conn[c] \notin {"unborn", "closed"}
  BY <1>1, <1>2, HandlerFacts DEF ReInv
<1>4. /\ re_running' \in BOOLEAN /\ re_file' \in [ReFds -> Conns \cup {0}]
      /\ re_slot' \in [ReFds -> Conns \cup {0}]
      /\ re_conn' \in [Conns -> {"unborn", "new", "added", "handed", "left", "closed"}]
      /\ re_reg' \in [ReFds -> {"none", "armed", "off"}] /\ re_self' \subseteq ReFds
  BY <1>2, <1>3 DEF ReTypeOK
<1>5. /\ \A g \in ReFds : g # f =>
           re_file'[g] = re_file[g] /\ re_slot'[g] = re_slot[g] /\ re_reg'[g] = re_reg[g]
      /\ \A d \in Conns : d # c => re_conn'[d] = re_conn[d]
  BY <1>2, <1>3 DEF ReTypeOK
<1>6. re_file'[f] = c /\ re_conn'[c] = "handed" /\ re_slot'[f] = re_slot[f] /\ re_reg'[f] = re_reg[f]
  BY <1>2, <1>3 DEF ReTypeOK
<1> QED BY <1>1, <1>2, <1>3, <1>4, <1>5, <1>6, HandlerStep

LEMMA ReHandlerClosesStep ==
  ASSUME ReInv, ~re_fault, NEW t \in ReThreads, ReHandlerCloses(t)
  PROVE  ReInv'
<1>1. PICK f, c : f = Event(t).fd /\ c = re_copy[t]
  OBVIOUS
<1>2. /\ re_pc[t] \in Handlers /\ Returns(t)
      /\ Early(t)
      /\ re_file' = [re_file EXCEPT ![f] = 0] /\ re_conn' = [re_conn EXCEPT ![c] = "closed"]
      /\ re_slot' = [re_slot EXCEPT ![f] = 0] /\ re_reg' = [re_reg EXCEPT ![f] = "none"]
      /\ re_self' = IF re_pc[t] = "on_close" THEN re_self \cup {f} ELSE re_self
      /\ UNCHANGED re_running
  BY <1>1 DEF ReHandlerCloses
<1>3. ReTypeOK /\ f \in ReFds /\ c \in Conns /\ re_file[f] = c /\ re_conn[c] \notin {"unborn", "closed"}
  BY <1>1, <1>2, HandlerFacts DEF ReInv
<1>4. /\ re_running' \in BOOLEAN /\ re_file' \in [ReFds -> Conns \cup {0}]
      /\ re_slot' \in [ReFds -> Conns \cup {0}]
      /\ re_conn' \in [Conns -> {"unborn", "new", "added", "handed", "left", "closed"}]
      /\ re_reg' \in [ReFds -> {"none", "armed", "off"}] /\ re_self' \subseteq ReFds
  BY <1>2, <1>3 DEF ReTypeOK
<1>5. /\ \A g \in ReFds : g # f =>
           re_file'[g] = re_file[g] /\ re_slot'[g] = re_slot[g] /\ re_reg'[g] = re_reg[g]
      /\ \A d \in Conns : d # c => re_conn'[d] = re_conn[d]
  BY <1>2, <1>3 DEF ReTypeOK
<1>6. re_file'[f] = 0 /\ re_conn'[c] = "closed" /\ re_slot'[f] = 0 /\ re_reg'[f] = "none"
      /\ re_self \subseteq re_self' /\ (re_pc[t] = "on_close" => f \in re_self')
  BY <1>2, <1>3 DEF ReTypeOK
<1> QED BY <1>1, <1>2, <1>3, <1>4, <1>5, <1>6, HandlerStep

LEMMA ReHandlerLeavesStep ==
  ASSUME ReInv, ~re_fault, NEW t \in ReThreads, ReHandlerLeaves(t)
  PROVE  ReInv'
<1>1. PICK f, c : f = Event(t).fd /\ c = re_copy[t]
  OBVIOUS
<1>2. /\ re_pc[t] \in Handlers /\ Returns(t)
      /\ re_pc[t] = "on_close" /\ re_early' = re_early
      /\ re_conn' = [re_conn EXCEPT ![c] = "left"]
      /\ UNCHANGED <<re_running, re_file, re_slot, re_reg, re_self>>
  BY <1>1 DEF ReHandlerLeaves, Handlers
<1>3. ReTypeOK /\ f \in ReFds /\ c \in Conns /\ re_file[f] = c /\ re_conn[c] \notin {"unborn", "closed"}
  BY <1>1, <1>2, HandlerFacts DEF ReInv
<1>4. /\ re_running' \in BOOLEAN /\ re_file' \in [ReFds -> Conns \cup {0}]
      /\ re_slot' \in [ReFds -> Conns \cup {0}]
      /\ re_conn' \in [Conns -> {"unborn", "new", "added", "handed", "left", "closed"}]
      /\ re_reg' \in [ReFds -> {"none", "armed", "off"}] /\ re_self' \subseteq ReFds
  BY <1>2, <1>3 DEF ReTypeOK
<1>5. /\ \A g \in ReFds : g # f =>
           re_file'[g] = re_file[g] /\ re_slot'[g] = re_slot[g] /\ re_reg'[g] = re_reg[g]
      /\ \A d \in Conns : d # c => re_conn'[d] = re_conn[d]
  BY <1>2, <1>3 DEF ReTypeOK
<1>6. re_file'[f] = c /\ re_conn'[c] = "left" /\ re_slot'[f] = re_slot[f] /\ re_reg'[f] = re_reg[f]
  BY <1>2, <1>3 DEF ReTypeOK
<1> QED BY <1>1, <1>2, <1>3, <1>4, <1>5, <1>6, HandlerStep

LEMMA ReStepInv == ReInv /\ [ReNext]_reVars => ReInv'
<1>1. SUFFICES ASSUME ReInv, [ReNext]_reVars PROVE ReInv'
  OBVIOUS
<1>2. CASE UNCHANGED reVars
  <2>1. UNCHANGED <<re_running, re_file, re_conn, re_slot, re_reg, re_pc, re_batch, re_copy, re_early, re_self, re_fault>>
    BY <1>2 DEF reVars, connVars, loopVars, histVars
  <2>2. \A u \in ReThreads : Event(u)' = Event(u) /\ \A f \in ReFds : Has(u, f)' <=> Has(u, f)
    BY <2>1, SameEvents
  <2>3. ReTypeOK' /\ ReBatchInv' /\ SlotIsCurrent' /\ NotDropped'
    BY <1>1, <2>1 DEF ReInv, ReTypeOK, ReBatchInv, SlotIsCurrent, NotDropped
  <2>4. ReOpenInv' /\ ReRemoveInv'
    BY <1>1, <2>1, <2>2 DEF ReInv, ReOpenInv, ReRemoveInv
  <2>5. ReOneShotInv'
    BY <1>1, <2>1, <2>2 DEF ReInv, ReOneShotInv
  <2> QED BY <2>3, <2>4, <2>5 DEF ReInv
<1>3. CASE ReNext
  <2>1. ~re_fault
    BY <1>3 DEF ReNext
  <2>2. ASSUME NEW f \in ReFds,
               ReOpen(f) \/ ReAdd(f) \/ ReOwnerClose(f) \/ ReWorkerRearms(f) \/ ReWorkerCloses(f)
        PROVE  ReInv'
    BY <1>1, <2>1, <2>2, ReOpenStep, ReAddStep, ReOwnerCloseStep, ReWorkerRearmsStep, ReWorkerClosesStep
  <2>3. ASSUME NEW t \in ReThreads, ReLoop(t) PROVE ReInv'
    BY <1>1, <2>1, <2>3, ReWaitStep, ReExitStep, ReCopySlotStep, ReRemoveStep DEF ReLoop
  <2>4. ASSUME NEW t \in ReThreads, ReHandler(t) PROVE ReInv'
    BY <1>1, <2>1, <2>4, ReHandlerRearmsStep, ReHandlerHandsOverStep, ReHandlerClosesStep,
       ReHandlerLeavesStep DEF ReHandler
  <2> QED BY <1>1, <1>3, <2>1, <2>2, <2>3, <2>4, ReStopStep DEF ReNext
<1> QED BY <1>1, <1>2, <1>3

(* The invariant of the reactor holds in every reachable state.            *)
THEOREM ReInvariant == ReSpec => []ReInv
BY ReInitInv, ReStepInv, PTL DEF ReSpec

(* The reactor is safe for handlers that keep its rules, for any number of *)
(* threads, descriptors and connections: an event finds the slot of its    *)
(* own connection, a connection is served by one handler at a time and is  *)
(* not closed under it, and one that was added stays registered.           *)
THEOREM ReIsSafe == ReSpec => []ReSafe
<1>1. ASSUME ReInv PROVE ReSafe
  <2>1. ReTypeOK /\ ReBatchInv /\ ReOpenInv /\ ReOneShotInv /\ SlotIsCurrent /\ NotDropped
    BY <1>1 DEF ReInv
  <2>2. ASSUME NEW f \in ReFds \ re_early, re_file[f] # 0
        PROVE  Cardinality({t \in ReThreads : re_pc[t] \in Handlers /\ re_copy[t] = re_file[f]}) <= 1
    <3> DEFINE S == {t \in ReThreads : re_pc[t] \in Handlers /\ re_copy[t] = re_file[f]}
    <3>1. ASSUME NEW t \in S PROVE Has(t, f)
      <4>1. Event(t).fd = f
        BY <2>1 DEF ReOpenInv
      <4> QED BY <2>1, <4>1, EventFacts DEF Handlers
    <3>2. \A t, u \in S : t = u
      BY <2>1, <3>1 DEF ReOneShotInv
    <3> HIDE DEF S
    <3>3. S = {} \/ \E t : S = {t}
      BY <3>2
    <3>4. Cardinality(S) <= 1
      BY <3>3, FS_EmptySet, FS_Singleton
    <3> QED BY <3>4 DEF S
  <2>3. OneHandler
    BY <2>1, <2>2 DEF OneHandler, ReOneShotInv
  <2> QED BY <2>1, <2>3 DEF ReSafe
<1> QED BY <1>1, ReInvariant, PTL
=============================================================================
