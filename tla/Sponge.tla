------------------------------- MODULE Sponge -------------------------------
(***************************************************************************)
(* The buffering of res/sha3.c, which hashes the password: sha3_Init,      *)
(* sha3_SetFlags, sha3_Update and sha3_Finalize on one sha3_context, which *)
(* a caller uses again and again.  A byte is the set of its bits that are  *)
(* 1, so that XOR is the symmetric difference and OR the union; a word is  *)
(* a function from the bytes it has to their values.                       *)
(*                                                                         *)
(* keccakf is a fixed permutation of the state.  The state after it is     *)
(* therefore fixed by the blocks that were XORed in before each call, and  *)
(* these are what the model keeps: u.s holds what was XORed in since the   *)
(* last call, permuted the blocks of the calls before.                     *)
(***************************************************************************)
EXTENDS Naturals, Sequences, SequencesExt

CONSTANTS
    WordBytes,      \* sizeof(uint64_t)
    Rate,           \* SHA3_KECCAK_SPONGE_WORDS - SHA3_CW(ctx->capacityWords)
    Bytes,          \* the byte values of the input
    MaxLen          \* bound on the bytes hashed between two sha3_Init

ASSUME SpongeAssumption ==
    /\ WordBytes \in Nat \ {0}
    /\ Rate \in Nat \ {0}
    /\ Bytes \subseteq SUBSET (0 .. 7)
    /\ MaxLen \in Nat

VARIABLES
    ctx,            \* the sha3_context
    message,        \* what the caller has passed since sha3_Init
    done            \* sha3_Finalize was called

vars == <<ctx, message, done>>

InWord == 0 .. (WordBytes - 1)
Words == [InWord -> SUBSET (0 .. 7)]
Zero == [j \in InWord |-> {}]

(* A word whose byte j is value and whose other bytes are 0: value << 8j.  *)
Shifted(value, j) == [Zero EXCEPT ![j] = value]

Xor(word, other) == [j \in InWord |-> SymDiff(word[j], other[j])]

EmptyState == [i \in 0 .. (Rate - 1) |-> Zero]

Messages == BoundedSeq(Bytes, MaxLen)

-----------------------------------------------------------------------------
Fresh == [s |-> EmptyState, permuted |-> <<>>, saved |-> Zero,
          byteIndex |-> 0, wordIndex |-> 0, keccak |-> FALSE]

(* keccakf, reached with the block u.s XORed in. *)
Keccakf(c) == [c EXCEPT !.permuted = Append(@, c.s), !.s = EmptyState]

XorAt(c, i, word) == [c EXCEPT !.s[i] = Xor(@, word)]

(* One word goes into the state; a full block is permuted. *)
AbsorbWord(c, word) ==
    LET absorbed == [XorAt(c, c.wordIndex, word) EXCEPT !.wordIndex = @ + 1]
    IN  IF absorbed.wordIndex = Rate
        THEN [Keccakf(absorbed) EXCEPT !.wordIndex = 0]
        ELSE absorbed

(* saved |= *buf++ << 8 * byteIndex++, for each byte of buf. *)
Save(c, buf) ==
    [c EXCEPT
        !.saved = [j \in InWord |->
            IF j - c.byteIndex + 1 \in DOMAIN buf
            THEN @[j] \cup buf[j - c.byteIndex + 1]
            ELSE @[j]],
        !.byteIndex = @ + Len(buf)]

AbsorbSavedNoReset(c) == AbsorbWord([c EXCEPT !.saved = Zero], c.saved)

AbsorbSaved(c) == AbsorbWord([c EXCEPT !.byteIndex = 0, !.saved = Zero], c.saved)

(* The words of buf, least significant byte first. *)
FullWords(buf) ==
    [i \in 1 .. (Len(buf) \div WordBytes) |->
        [j \in InWord |-> buf[(i - 1) * WordBytes + j + 1]]]

(* 0...7 -- how much is needed to have a word *)
OldTail(c) == (WordBytes - c.byteIndex) % WordBytes

AbsorbAll(c, buf) ==
    LET words == FullWords(buf)
    IN  Save(FoldLeft(AbsorbWord, c, words),
             SubSeq(buf, Len(words) * WordBytes + 1, Len(buf)))

Updated(c, buf) ==
    IF Len(buf) < OldTail(c) THEN Save(c, buf)
    ELSE IF OldTail(c) > 0
    THEN AbsorbAll(AbsorbSaved(Save(c, SubSeq(buf, 1, OldTail(c)))),
                   SubSeq(buf, OldTail(c) + 1, Len(buf)))
    ELSE AbsorbAll(c, buf)

(* 1 for Keccak; 0x02 | (1 << 2), the suffix 01 and the padding, for SHA-3. *)
Suffix(keccak) == IF keccak THEN {0} ELSE {1, 2}

FinalizedNoSaved(c) ==
    LET suffixed == XorAt(c, c.wordIndex, Shifted(Suffix(c.keccak), c.byteIndex))
    IN  Keccakf(XorAt(suffixed, Rate - 1, Shifted({7}, WordBytes - 1)))

Finalized(c) ==
    LET t == Shifted(Suffix(c.keccak), c.byteIndex)
        suffixed == XorAt(c, c.wordIndex, Xor(c.saved, t))
    IN  Keccakf(XorAt(suffixed, Rate - 1, Shifted({7}, WordBytes - 1)))

(* The flag can be set and never cleared: capacityWords |= ... *)
Flagged(c, keccak) == [c EXCEPT !.keccak = @ \/ keccak]

(* sha3_HashBuffer: the hash of a message passed in one call. *)
HashBuffer(keccak, buf) == Finalized(Updated(Flagged(Fresh, keccak), buf)).permuted

-----------------------------------------------------------------------------
Init == ctx = Fresh /\ message = <<>> /\ done = FALSE

sha3_InitKeepsSaved ==
    /\ ctx' = [Fresh EXCEPT !.saved = ctx.saved]
    /\ message' = <<>> /\ done' = FALSE

(* memset of the whole context, which may have been used before. *)
sha3_Init == ctx' = Fresh /\ message' = <<>> /\ done' = FALSE

sha3_SetFlags(keccak) ==
    /\ message = <<>> /\ ~done
    /\ ctx' = Flagged(ctx, keccak)
    /\ UNCHANGED <<message, done>>

sha3_Update(buf) ==
    /\ ~done
    /\ Len(message) + Len(buf) <= MaxLen
    /\ ctx' = Updated(ctx, buf)
    /\ message' = message \o buf
    /\ UNCHANGED done

sha3_Finalize ==
    /\ ~done
    /\ ctx' = Finalized(ctx)
    /\ done' = TRUE
    /\ UNCHANGED message

Next ==
    \/ sha3_Init
    \/ \E keccak \in BOOLEAN : sha3_SetFlags(keccak)
    \/ \E buf \in Messages : sha3_Update(buf)
    \/ sha3_Finalize

Spec == Init /\ [][Next]_vars

-----------------------------------------------------------------------------
(* Byte p of the padded message: "The padding block is 0x01 || 0x00* ||    *)
(* 0x80.  First 0x01 and last 0x80 bytes are always present, but they can  *)
(* be the same byte" (sha3.c:239), with SHA-3's suffix in the first.       *)
PaddedByte(keccak, m, blocks, p) ==
    IF p <= Len(m) THEN m[p]
    ELSE (IF p = Len(m) + 1 THEN Suffix(keccak) ELSE {})
         \cup (IF p = blocks * Rate * WordBytes THEN {7} ELSE {})

PaddedBlocks(keccak, m) ==
    LET blocks == Len(m) \div (Rate * WordBytes) + 1
    IN  [b \in 1 .. blocks |-> [i \in 0 .. (Rate - 1) |-> [j \in InWord |->
            PaddedByte(keccak, m, blocks,
                       ((b - 1) * Rate + i) * WordBytes + j + 1)]]]

(***************************************************************************)
(* The type invariant, with what sha3_Update asserts on entry and on exit: *)
(* byteIndex < 8 and wordIndex < the number of words (sha3.c:161, 162,     *)
(* 234).                                                                   *)
(***************************************************************************)
SpongeTypeOK ==
    /\ ctx.s \in [0 .. (Rate - 1) -> Words]
    /\ \A b \in DOMAIN ctx.permuted : ctx.permuted[b] \in [0 .. (Rate - 1) -> Words]
    /\ ctx.saved \in Words
    /\ ctx.byteIndex \in InWord
    /\ ctx.wordIndex \in 0 .. (Rate - 1)
    /\ ctx.keccak \in BOOLEAN
    /\ message \in Seq(Bytes)
    /\ done \in BOOLEAN

(***************************************************************************)
(* What keccakf has been given when sha3_Finalize returns is the padded    *)
(* message, whatever the pieces in which sha3_Update got it and whatever   *)
(* the context was used for before (sha3.c:146-270).                       *)
(***************************************************************************)
HashesMessage == done => ctx.permuted = PaddedBlocks(ctx.keccak, message)

(***************************************************************************)
(* No other message gives keccakf the same blocks: neither the padding nor *)
(* a byte left over in saved makes two messages one (sha3.c:253-270).      *)
(***************************************************************************)
NoCollision ==
    done => \A m \in Messages :
                HashBuffer(ctx.keccak, m) = ctx.permuted => m = message
=============================================================================
