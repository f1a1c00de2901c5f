------------------------------- MODULE Keymap -------------------------------
(***************************************************************************)
(* The keymap of a TIBX archive (tibx/crypto.py) and TIBX.unlock: the data *)
(* key is wrapped with a password or to a certificate and lies somewhere   *)
(* in the mem-tree of the keymap, up to its end, where it is scanned for.  *)
(*                                                                         *)
(* A word of the mem-tree is [value, key, nth]: of a wrapped key, which    *)
(* one and which word of it.  With the right password and from its header  *)
(* to its end a wrapped key decrypts to the padded key; anything else      *)
(* decrypts to what is no key.                                             *)
(***************************************************************************)
EXTENDS Integers, SequencesExt

CONSTANTS
  Keymaps,         (* the keymaps looked at: records of whether there is one, whether it *)
                   (* has records, what is in it before, of and behind wrapped keys, and *)
                   (* whether it is a chain of blocks, the first of them ends where cut  *)
                   (* is, counted from the end if it is negative                         *)
  WrappedKeys,     (* the wrapped keys in them: number :> [format, alg, iter_log2,       *)
                   (* password, length]                                                  *)
  Passwords,
  KEY_LENGTH,      (* alg :> length of its keys                                          *)
  MIN_ITER_LOG2,
  MAX_ITER_LOG2,
  MAX_KEYMAP_BLOB,
  KeymapSlack,     (* what a chain may decode to beyond its first block                  *)
  AesBlock

VARIABLES
  keymap,   (* whether it is there and has records, and its blocks         *)
  password,
  offset,   (* where the scan is                                           *)
  key,      (* the data key, or NoKey                                      *)
  unlocking (* "checking", "scanning", "unlocked" or the error             *)

vars == <<keymap, password, offset, key, unlocking>>

NoKey == 0

WRAPPED_KEY_FORMAT_PASSWORD == 1
WRAPPED_KEY_FORMAT_PUBKEY == 2

\* format, alg, iter_log2, the reserved byte and the salt.
WRAPPED_KEY_HEADER_SIZE == 5

Noise(value) == [value |-> value, key |-> NoKey, nth |-> 0]

-----------------------------------------------------------------------------
\* The writer.

\* The ciphertext is as long as the key padded to whole blocks.
WrappedLength(k) == (WrappedKeys[k].length \div AesBlock + 1) * AesBlock

\* A wrapped key; a word of its ciphertext can be the same as a format.
Wrapped(k) ==
  LET w      == WrappedKeys[k]
      header == <<w.format, w.alg, w.iter_log2, 0, 9>>
  IN  [n \in 1 .. WRAPPED_KEY_HEADER_SIZE + WrappedLength(k) |->
         [value |-> IF n <= WRAPPED_KEY_HEADER_SIZE THEN header[n]
                    ELSE (n - WRAPPED_KEY_HEADER_SIZE) % 3,
          key |-> k, nth |-> n]]

Stored(k) ==
  LET noise(values) == [n \in DOMAIN values |-> Noise(values[n])]
      words == noise(k.front) \o FlattenSeq([i \in DOMAIN k.keys |-> Wrapped(k.keys[i])])
                 \o noise(k.back)
      first == IF k.cut <= 0 THEN Len(words) + k.cut ELSE k.cut
      parts == <<SubSeq(words, 1, first), SubSeq(words, first + 1, Len(words))>>
  IN  [present |-> k.present, records |-> k.records, linked |-> k.linked,
       blocks |-> IF k.linked THEN parts ELSE <<words>>]

-----------------------------------------------------------------------------
\* _keymap_blob

Least(a, b) == IF a <= b THEN a ELSE b

\* decompress_linked_lz4, not strict: whole blocks, as long as they fit.
Decoded ==
  LET limit     == Least(Len(keymap.blocks[1]) + KeymapSlack, MAX_KEYMAP_BLOB)
      first(n)  == FlattenSeq(SubSeq(keymap.blocks, 1, n))
      fitting   == {n \in 0 .. Len(keymap.blocks) : Len(first(n)) <= limit}
  IN  first(CHOOSE n \in fitting : \A m \in fitting : m <= n)

Blob == IF keymap.linked THEN Decoded ELSE FlattenSeq(keymap.blocks)

TooLarge == Len(Blob) > MAX_KEYMAP_BLOB

Value(at) == Blob[at + 1].value

\* Mutation of ScanOffsets: a wrapped key is taken to start at whole blocks.
ScanAligned(blob) ==
  {at \in 0 .. Len(blob) - (WRAPPED_KEY_HEADER_SIZE + AesBlock) - 1 : at % AesBlock = 0}

\* One less than where a key of one block would fit: there is no such key.
ScanOffsets(blob) == 0 .. Len(blob) - (WRAPPED_KEY_HEADER_SIZE + AesBlock) - 1

WellFormed(at) ==
  /\ Value(at + 1) \in DOMAIN KEY_LENGTH
  /\ Value(at + 2) \in MIN_ITER_LOG2 .. MAX_ITER_LOG2
  /\ (Len(Blob) - at - WRAPPED_KEY_HEADER_SIZE) % AesBlock = 0

HasWrappedKey(format) ==
  /\ keymap.present /\ ~TooLarge
  /\ \E at \in ScanOffsets(Blob) : Value(at) = format /\ WellFormed(at)

PasswordProtected ==
  keymap.present /\ keymap.records /\ HasWrappedKey(WRAPPED_KEY_FORMAT_PASSWORD)

CertificateProtected ==
  keymap.present /\ keymap.records /\ HasWrappedKey(WRAPPED_KEY_FORMAT_PUBKEY)

\* The keys that the bytes from at on unwrap to: one or none.
Unwrapped(at) ==
  {k \in DOMAIN WrappedKeys :
     /\ WellFormed(at)
     /\ SubSeq(Blob, at + 1, Len(Blob)) = Wrapped(k)
     /\ WrappedKeys[k].password = password
     /\ WrappedKeys[k].length = KEY_LENGTH[Value(at + 1)]}

-----------------------------------------------------------------------------
\* TIBX.unlock, unwrap_data_key

Init ==
  /\ keymap \in {Stored(k) : k \in Keymaps}
  /\ password \in Passwords
  /\ offset = 0
  /\ key = NoKey
  /\ unlocking = "checking"

Become(outcome) ==
  /\ unlocking' = outcome
  /\ UNCHANGED <<keymap, password, offset, key>>

RefusePassword ==
  /\ unlocking = "checking"
  /\ ~PasswordProtected /\ CertificateProtected
  /\ Become("unsupported format")

NothingToScan ==
  /\ unlocking = "checking"
  /\ ~keymap.present \/ TooLarge
  /\ Become("invalid password")

BeginScan ==
  /\ unlocking = "checking"
  /\ keymap.present /\ ~TooLarge
  /\ PasswordProtected \/ ~CertificateProtected
  /\ Become("scanning")

Scanning == unlocking = "scanning" /\ offset \in ScanOffsets(Blob)

PassOver ==
  /\ Scanning
  /\ Value(offset) # WRAPPED_KEY_FORMAT_PASSWORD \/ Unwrapped(offset) = {}
  /\ offset' = offset + 1
  /\ UNCHANGED <<keymap, password, key, unlocking>>

Unwrap ==
  /\ Scanning
  /\ Value(offset) = WRAPPED_KEY_FORMAT_PASSWORD
  /\ key' \in Unwrapped(offset)
  /\ unlocking' = "unlocked"
  /\ UNCHANGED <<keymap, password, offset>>

EndScan ==
  /\ unlocking = "scanning"
  /\ offset \notin ScanOffsets(Blob)
  /\ Become("invalid password")

Ended == unlocking \notin {"checking", "scanning"} /\ UNCHANGED vars

Next ==
  \/ RefusePassword
  \/ NothingToScan
  \/ BeginScan
  \/ PassOver
  \/ Unwrap
  \/ EndScan
  \/ Ended

Spec == Init /\ [][Next]_vars

-----------------------------------------------------------------------------

\* Every variable has its type.
TypeOK ==
  /\ offset \in 0 .. MAX_KEYMAP_BLOB
  /\ key \in DOMAIN WrappedKeys \cup {NoKey}
  /\ unlocking \in {"checking", "scanning", "unlocked", "invalid password",
                    "unsupported format"}

\* What was written, all blocks of it, and the key at its end.
Whole == FlattenSeq(keymap.blocks)

LastKey ==
  {k \in DOMAIN WrappedKeys : k = Last(Whole).key /\ Last(Whole).nth = Len(Wrapped(k))}

\* The keys that the password opens: not one to a certificate, none before another one, and
\* none that is too short for its cipher.
Openable ==
  {k \in LastKey : /\ WrappedKeys[k].format = WRAPPED_KEY_FORMAT_PASSWORD
                   /\ WrappedKeys[k].length = KEY_LENGTH[WrappedKeys[k].alg]
                   /\ WrappedKeys[k].password = password}

\* Whatever stands before the key, and even if that looks like one: the password unlocks the
\* archive with its own key and nothing else does, and the archive says beforehand that there
\* is a password.  What a chain of blocks has beyond the limit is not looked at.
KeyUnlocks ==
  /\ unlocking = "unlocked" =>
       /\ key \in Openable
       /\ keymap.records => PasswordProtected
  /\ unlocking \in {"invalid password", "unsupported format"} =>
       Openable = {} \/ ~keymap.present \/ TooLarge \/ Blob # Whole
  /\ unlocking = "unsupported format" =>
       \E w \in ToSet(Blob) : w.value = WRAPPED_KEY_FORMAT_PUBKEY
=============================================================================
