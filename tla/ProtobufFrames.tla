--------------------------- MODULE ProtobufFrames ---------------------------
(***************************************************************************)
(* The framing of messages: protobuf_comm/frame_header.h, serialize() and  *)
(* deserialize() of the message register, send(), start_send() and         *)
(* handle_recv() of the broadcast peer, and crypto.cpp.  One peer sends    *)
(* messages, another receives them; only sizes, ciphers and keys matter.   *)
(* The cryptographic functions are external: a ciphertext can be decrypted *)
(* with the key it was made with.  Both peers have the same passphrase.    *)
(***************************************************************************)
EXTENDS Naturals, FiniteSetsExt

CONSTANTS Sizes,       \* lengths of serialised messages
          MaxMessages, \* bound: messages sent
          None

\* sizeof(frame_header_t), sizeof(frame_header_v1_t), sizeof(message_header_t)
FrameHeader == 8
FrameHeaderV1 == 8
MessageHeader == 4
\* max_packet_length, the size of in_data_ and of a receive
MaxPacketLength == 1024

\* OpenSSL's ciphers.
Ciphers == {"aes-128-ecb", "aes-128-cbc", "aes-256-ecb", "aes-256-cbc"}
IvLength(c) == IF c \in {"aes-128-cbc", "aes-256-cbc"} THEN 16 ELSE 0
BlockSize == 16
\* EVP_BytesToKey(): a key of the cipher's length from the passphrase.
BytesToKey(c) == IF c \in {"aes-128-ecb", "aes-128-cbc"} THEN "key16" ELSE "key32"

cipher_name_to_id(name) ==
    CASE name = "aes-128-ecb" -> 1 [] name = "aes-128-cbc" -> 2
      [] name = "aes-256-ecb" -> 3 [] name = "aes-256-cbc" -> 4
cipher_by_name(name) == name
cipher_by_id(id) ==
    CASE id = 1 -> "aes-128-ecb" [] id = 2 -> "aes-128-cbc"
      [] id = 3 -> "aes-256-ecb" [] id = 4 -> "aes-256-cbc"

VARIABLES version,     \* 1 or 2, of both peers
          cipher,      \* the cipher of the next messages, or None
          frame,       \* the datagram on its way, or None
          length,      \* the length of its message
          count,       \* messages sent
          keys,        \* keys_ of the receiver's BufferDecryptor
          got          \* [ok, length] of the message received, or None
vars == <<version, cipher, frame, length, count, keys, got>>

Init ==
    /\ version \in {1, 2}
    /\ cipher \in IF version = 1 THEN {None} ELSE Ciphers \cup {None}
    /\ frame = None /\ length = 0 /\ count = 0 /\ got = None
    /\ keys = [id \in {} |-> None]

(* The sender. *)

\* MessageRegister::serialize(): the payload size it puts into the frame header.
serialize(n) == MessageHeader + n

\* BufferEncryptor::encrypted_buffer_size()
encrypted_buffer_size(c, plain) == (plain \div BlockSize + 1) * BlockSize + IvLength(c)

\* BufferEncryptor::encrypt(): the IV, then the padded blocks.
encrypt(c, plain) ==
    [size |-> IvLength(c) + (plain \div BlockSize + 1) * BlockSize,
     key |-> BytesToKey(cipher_by_name(c)), plain |-> plain]

\* send() and start_send(): the bytes of the datagram and its header.
MakeFrame(n) ==
    IF version = 1
    THEN [bytes |-> FrameHeaderV1 + n, payload |-> serialize(n), cipher |-> 0, key |-> None]
    ELSE IF cipher = None
    THEN [bytes |-> FrameHeader + MessageHeader + n, payload |-> serialize(n),
          cipher |-> 0, key |-> None]
    ELSE LET enc == encrypt(cipher, MessageHeader + n)
         IN [bytes |-> FrameHeader + enc.size, payload |-> enc.size,
             cipher |-> cipher_name_to_id(cipher), key |-> enc.key]

\* A message that is too long is refused.
Send(n) ==
    /\ frame = None /\ count < MaxMessages /\ n <= MaxPacketLength
    /\ frame' = MakeFrame(n) /\ length' = n /\ count' = count + 1
    /\ got' = None
    /\ UNCHANGED <<version, cipher, keys>>

\* setup_crypto() of the sender with another cipher; the receiver keeps its own.
SetupCrypto(c) ==
    /\ version = 2 /\ cipher # None /\ frame = None
    /\ cipher' = c /\ got' = None
    /\ UNCHANGED <<version, frame, length, count, keys>>

(* The receiver. *)

\* Mutant: a key that was made for one cipher is used for all.
generate_key_once(id) ==
    IF DOMAIN keys # {} THEN [i \in DOMAIN keys \cup {id} |-> keys[CHOOSE j \in DOMAIN keys : TRUE]]
    ELSE [i \in {id} |-> BytesToKey(cipher_by_id(id))]

\* BufferDecryptor::generate_key() for a cipher it has no key for yet.
generate_key(id) ==
    [i \in DOMAIN keys \cup {id} |->
        IF i \in DOMAIN keys THEN keys[i] ELSE BytesToKey(cipher_by_id(id))]

\* decrypt() succeeds with the right key on a datagram that is complete.
decrypts(bytes) == bytes = frame.bytes /\ generate_key(frame.cipher)[frame.cipher] = frame.key

\* handle_recv()
Receive ==
    /\ frame # None
    /\ LET bytes == Min({frame.bytes, MaxPacketLength})
           encrypted == frame.cipher # 0
           expectedMin == IF version = 1 THEN FrameHeaderV1 ELSE FrameHeader + MessageHeader
           headerSize == IF version = 1 THEN FrameHeaderV1 ELSE FrameHeader
           plain == MessageHeader + length
           payload == IF encrypted THEN plain ELSE frame.payload
           total == IF encrypted THEN FrameHeader + plain ELSE bytes
       IN /\ keys' = IF encrypted THEN generate_key(frame.cipher) ELSE keys
          /\ got' = IF /\ bytes >= expectedMin
                       /\ encrypted => decrypts(bytes)
                       /\ total = headerSize + payload
                    THEN [ok |-> TRUE,
                          length |-> IF version = 1 THEN payload ELSE payload - MessageHeader]
                    ELSE [ok |-> FALSE, length |-> 0]
    /\ frame' = None
    /\ UNCHANGED <<version, cipher, length, count>>

\* The network loses a datagram.
Lose ==
    /\ frame # None
    /\ frame' = None
    /\ UNCHANGED <<version, cipher, length, count, keys, got>>

Next ==
    \/ \E n \in Sizes : Send(n)
    \/ \E c \in Ciphers : SetupCrypto(c)
    \/ Receive \/ Lose

Spec == Init /\ [][Next]_vars

-----------------------------------------------------------------------------
(* Properties. *)

\* The message of a version 2 datagram that fits into a receive arrives with
\* the length it was sent with, with any cipher and whatever ciphers came
\* before; and an encrypted message fits into the buffer that was made for it.
Fits(n) ==
    IF cipher = None THEN FrameHeader + MessageHeader + n <= MaxPacketLength
    ELSE FrameHeader + encrypted_buffer_size(cipher, MessageHeader + n) <= MaxPacketLength
RoundTrip ==
    /\ version = 2 /\ got # None /\ Fits(length) => got = [ok |-> TRUE, length |-> length]
    /\ cipher # None => encrypt(cipher, length).size <= encrypted_buffer_size(cipher, length)

=============================================================================
