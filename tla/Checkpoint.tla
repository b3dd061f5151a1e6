----------------------------- MODULE Checkpoint -----------------------------
(***************************************************************************)
(* Saving and loading of model checkpoints, runtime/ai/llm/checkpoint.c,   *)
(* with a crash of the process at any point and writes that fail (fwrite   *)
(* is not checked).                                                        *)
(*                                                                         *)
(* A file is a sequence of cells: a header with the digest it carries,     *)
(* and the tensors of a model.  SHA-256 is taken to be free of collisions: *)
(* the digest of a payload is the payload.                                 *)
(***************************************************************************)
EXTENDS Integers, Sequences

CONSTANTS
    CkModels,    \* the models that are saved
    CkTensors,   \* tensors per model
    CkSaves      \* bound: calls of checkpoint_save

\* The first field of a cell tells a header from a tensor.
ASSUME CkAssumption == CkTensors \in Nat /\ "header" \notin CkModels

NoFile == <<<<"no file">>>>   \* no cell of a file is like that
NoModel == <<<<"no model">>>>  \* nor is one of these a tensor
Payload(m) == [i \in 1 .. CkTensors |-> <<m, i>>]
Header(digest) == <<"header", digest>>

VARIABLES
    ck_pc,       \* where checkpoint_save is, "idle" outside
    ck_model,    \* the model it saves
    ck_pos,      \* cells written or given up in the open file
    ck_tmp,      \* the file path.tmp
    ck_path,     \* the file path
    ck_digest,   \* hdr.sha256
    ck_loaded,   \* what checkpoint_load returned since the last save began
    ck_calls,    \* calls of checkpoint_save
    \* History: every save so far, what the last one that returned true saved,
    \* whether a write to path.tmp or path failed, whether phase 3 truncated
    \* path and no save has returned true since.
    ck_saved, ck_true, ck_shortTmp, ck_shortPath, ck_exposed

ckVars == <<ck_pc, ck_model, ck_pos, ck_tmp, ck_path, ck_digest, ck_loaded, ck_calls,
            ck_saved, ck_true, ck_shortTmp, ck_shortPath, ck_exposed>>
ckHistory == <<ck_saved, ck_true, ck_shortTmp, ck_shortPath, ck_exposed>>

CkInit ==
    /\ ck_pc = "idle" /\ ck_model \in CkModels /\ ck_pos = 0
    /\ ck_tmp = NoFile /\ ck_path = NoFile /\ ck_digest = <<>>
    /\ ck_loaded = NoModel /\ ck_calls = 0
    /\ ck_saved = {} /\ ck_true = NoModel
    /\ ck_shortTmp = FALSE /\ ck_shortPath = FALSE /\ ck_exposed = FALSE

-----------------------------------------------------------------------------
(* checkpoint_load.                                                         *)

\* The SHA-256 of the payload is the one in the header.
Verified(file) == file[1][2] = Tail(file)

\* The payload that the file gives, NoModel when it is refused.
Loaded(file) ==
    IF file = NoFile \/ file = <<>> THEN NoModel
    ELSE IF file[1][1] # "header" THEN NoModel       \* the magic number
    ELSE IF Verified(file) THEN Tail(file) ELSE NoModel

CkLoad ==
    /\ ck_pc = "idle"
    /\ ck_loaded' = Loaded(ck_path)
    /\ UNCHANGED <<ck_pc, ck_model, ck_pos, ck_tmp, ck_path, ck_digest, ck_calls, ckHistory>>

-----------------------------------------------------------------------------
(* checkpoint_save.                                                         *)

\* Mutation: the previous checkpoint is truncated with the temporary file.
CkSaveTruncates(m) ==
    /\ ck_pc = "idle" /\ ck_calls < CkSaves
    /\ ck_pc' = "tmp" /\ ck_model' = m /\ ck_pos' = 0 /\ ck_calls' = ck_calls + 1
    /\ ck_tmp' = <<>> /\ ck_path' = <<>>
    /\ ck_saved' = ck_saved \cup {m}
    /\ UNCHANGED <<ck_digest, ck_loaded, ck_true, ck_shortTmp, ck_shortPath, ck_exposed>>

\* Phase 1 opens the temporary file and truncates it.
CkSave(m) ==
    /\ ck_pc = "idle" /\ ck_calls < CkSaves
    /\ ck_pc' = "tmp" /\ ck_model' = m /\ ck_pos' = 0 /\ ck_calls' = ck_calls + 1
    /\ ck_tmp' = <<>>
    /\ ck_saved' = ck_saved \cup {m}
    /\ ck_loaded' = NoModel
    /\ UNCHANGED <<ck_path, ck_digest, ck_true, ck_shortTmp, ck_shortPath, ck_exposed>>

\* One cell of the header and the tensors; the write may fail, unnoticed.
CkWriteTmp ==
    /\ ck_pc = "tmp" /\ ck_pos <= CkTensors
    /\ ck_pos' = ck_pos + 1
    /\ \/ /\ ck_tmp' = Append(ck_tmp, IF ck_pos = 0 THEN Header(<<>>) ELSE Payload(ck_model)[ck_pos])
          /\ UNCHANGED ck_shortTmp
       \/ ck_shortTmp' = TRUE /\ UNCHANGED ck_tmp
    /\ UNCHANGED <<ck_pc, ck_model, ck_path, ck_digest, ck_loaded, ck_calls,
                   ck_saved, ck_true, ck_shortPath, ck_exposed>>

\* A return of false: the files stay as they are.
CkGiveUp(pc) ==
    /\ ck_pc = pc /\ ck_pc' = "idle"
    /\ UNCHANGED <<ck_model, ck_pos, ck_tmp, ck_path, ck_digest, ck_loaded, ck_calls, ckHistory>>

\* Phase 2: the payload is read back from the temporary file.
CkChecksum ==
    /\ ck_pc = "tmp" /\ ck_pos > CkTensors /\ ck_tmp # <<>>
    /\ ck_digest' = Tail(ck_tmp)
    /\ ck_pc' = "open"
    /\ UNCHANGED <<ck_model, ck_pos, ck_tmp, ck_path, ck_loaded, ck_calls, ckHistory>>

\* It cannot be opened, is shorter than a header, or does not fit in memory.
CkChecksumFails == ck_pos > CkTensors /\ CkGiveUp("tmp")

\* Phase 3 opens path and truncates it.
CkOpenFinal ==
    /\ ck_pc = "open"
    /\ ck_path' = <<>> /\ ck_pos' = 0 /\ ck_exposed' = TRUE
    /\ ck_pc' = "copy"
    /\ UNCHANGED <<ck_model, ck_tmp, ck_digest, ck_loaded, ck_calls,
                   ck_saved, ck_true, ck_shortTmp, ck_shortPath>>

CkOpenFails == CkGiveUp("open")

\* The header with the digest, then what follows the header in the other file.
FinalCell == IF ck_pos = 0 THEN Header(ck_digest) ELSE ck_tmp[ck_pos + 1]

CkCopy ==
    /\ ck_pc = "copy" /\ ck_pos < Len(ck_tmp)
    /\ ck_pos' = ck_pos + 1
    /\ \/ ck_path' = Append(ck_path, FinalCell) /\ UNCHANGED ck_shortPath
       \/ ck_shortPath' = TRUE /\ UNCHANGED ck_path
    /\ UNCHANGED <<ck_pc, ck_model, ck_tmp, ck_digest, ck_loaded, ck_calls,
                   ck_saved, ck_true, ck_shortTmp, ck_exposed>>

\* The temporary file is removed, whatever was written.
CkReturnTrue ==
    /\ ck_pc = "copy" /\ ck_pos = Len(ck_tmp)
    /\ ck_tmp' = NoFile
    /\ ck_pc' = "idle" /\ ck_true' = Payload(ck_model) /\ ck_exposed' = FALSE
    /\ UNCHANGED <<ck_model, ck_pos, ck_path, ck_digest, ck_loaded, ck_calls,
                   ck_saved, ck_shortTmp, ck_shortPath>>

\* The process dies inside checkpoint_save.
CkCrash == \E pc \in {"tmp", "open", "copy"} : CkGiveUp(pc)

CkNext ==
    \/ \E m \in CkModels : CkSave(m)
    \/ CkWriteTmp \/ CkChecksum \/ CkChecksumFails \/ CkOpenFinal \/ CkOpenFails
    \/ CkCopy \/ CkReturnTrue \/ CkCrash \/ CkLoad

CkSpec == CkInit /\ [][CkNext]_ckVars

-----------------------------------------------------------------------------

\* What checkpoint_load returns is a whole model that some call saved, after
\* any crashes and with writes to path failing: the checksum rejects what a
\* crash left.  The exception is a failed write to the temporary file, which
\* phase 2 reads back and covers with a matching checksum.
CkLoadedWasSaved ==
    ck_loaded # NoModel /\ ~ck_shortTmp => \E m \in ck_saved : ck_loaded = Payload(m)

\* Once a save returned true, checkpoint_load of path gives exactly what the
\* last such save stored, whatever later saves do, in phases 1 and 2, where
\* they crash or return false.  The exceptions are failed writes, and phase 3:
\* from the truncation of path (checkpoint.c:192) until a save returns true no
\* file can be loaded, since the header of path.tmp has no digest (143), and a
\* crash or a return of false in between leaves it so.
CkPathKeptOutsidePhase3 ==
    (ck_true # NoModel /\ ~ck_shortTmp /\ ~ck_shortPath /\ ~ck_exposed) => Loaded(ck_path) = ck_true

\* Durability: a load accepts only what was saved, and outside phase 3 it gives
\* the last model of which checkpoint_save returned true.
CkDurable == CkLoadedWasSaved /\ CkPathKeptOutsidePhase3

-----------------------------------------------------------------------------
(* The inductive invariant behind CkDurable.                                *)

\* The files that checkpoint_save writes for model m when no write fails.
WholeTmp(m) == <<Header(<<>>)>> \o Payload(m)
WholePath(m) == <<Header(Payload(m))>> \o Payload(m)

\* file is what the first n writes of whole left.
CkPrefix(file, whole, n) ==
    /\ file \in Seq({whole[i] : i \in DOMAIN whole}) /\ Len(file) = n /\ n <= CkTensors + 1
    /\ \A i \in 1 .. n : file[i] = whole[i]

CkTypeOK ==
    /\ ck_pc \in {"idle", "tmp", "open", "copy"} /\ ck_pos \in Nat
    /\ ck_model \in CkModels /\ ck_saved \subseteq CkModels
    /\ ck_shortTmp \in BOOLEAN /\ ck_shortPath \in BOOLEAN /\ ck_exposed \in BOOLEAN
    /\ ck_pc # "idle" => ck_model \in ck_saved

\* The cells that a save puts in path.
CkCells == {Header(Payload(m)) : m \in ck_saved} \cup (CkModels \X (1 .. CkTensors))

\* The temporary file: written in part, or whole with its digest taken.
TmpInv ==
    ~ck_shortTmp =>
      /\ ck_pc = "tmp" => CkPrefix(ck_tmp, WholeTmp(ck_model), ck_pos)
      /\ ck_pc \in {"open", "copy"} => ck_tmp = WholeTmp(ck_model) /\ ck_digest = Payload(ck_model)

\* The file: whatever was lost of it, a header in it has the digest of a model
\* that was saved.
PathInv ==
    ~ck_shortTmp =>
      /\ ck_path # NoFile => ck_path \in Seq(CkCells)
      /\ ck_pc = "copy" => ck_path \in Seq(CkCells)
      /\ ck_pc = "copy" /\ ~ck_shortPath => CkPrefix(ck_path, WholePath(ck_model), ck_pos)

\* path changes only in phase 3.
ExposedInv == ck_pc = "copy" => ck_exposed

\* The strengthening of CkDurable that every step preserves.
CkInv == CkDurable /\ CkTypeOK /\ TmpInv /\ PathInv /\ ExposedInv
=============================================================================
