------------------------------- MODULE Apdu -------------------------------
(***************************************************************************)
(* The command protocol of the device: src/src/apdu.c and the path reader  *)
(* of src/src/utils.c, as functions from the command assembled so far and  *)
(* a received APDU to the next command and a status.                       *)
(*                                                                         *)
(* A message longer than one APDU is sent as a first chunk, which carries  *)
(* the derivation path, followed by EXTEND chunks; every chunk but the     *)
(* last has the MORE flag.  G_command holds what has been assembled.       *)
(***************************************************************************)
EXTENDS Integers, Sequences

CONSTANTS
  Byte,                    \* byte values
  WordSize,                \* bytes of one derivation index (4 in the app)
  MAX_BIP32_PATH_LENGTH,   \* derivation indices at most (5 in the app)
  MAX_MESSAGE_LENGTH       \* bytes of G_command.message (1280 in the app)

ASSUME ApduAssumption ==
  /\ Byte \subseteq Nat
  /\ WordSize \in Nat \ {0}
  /\ MAX_BIP32_PATH_LENGTH \in Nat \ {0}
  /\ MAX_MESSAGE_LENGTH \in Nat

SignInstructions == {"SignMessage", "SignOffchainMessage"}
Instructions == SignInstructions \cup {"GetAppConfiguration", "GetPubkey"}

\* An APDU.  "frame" says how the length the transport reports relates to the
\* header: "short" holds no instruction byte, "bad_length" disagrees with Lc.
Apdu ==
  [frame : {"whole", "short", "bad_length"}, cla : {"E0", "other"},
   ins : Instructions \cup {"Unknown"}, p1 : {"CONFIRM", "NON_CONFIRM"},
   p2 : SUBSET {"EXTEND", "MORE"}, data : Seq(Byte)]

\* ApduCommand; derivation_path_length is the length of derivation_path.
Command ==
  [state : {"Uninitialized", "PayloadInProgress", "PayloadComplete"},
   instruction : Instructions \cup {"None"}, num_derivation_paths : {0, 1},
   derivation_path : Seq(Byte), non_confirm : BOOLEAN, message : Seq(Byte)]

\* The command after explicit_bzero or MEMCLEAR.
EmptyCommand ==
  [state |-> "Uninitialized", instruction |-> "None", num_derivation_paths |-> 0,
   derivation_path |-> <<>>, non_confirm |-> FALSE, message |-> <<>>]

IsFirstChunk(apdu) == "EXTEND" \notin apdu.p2
ExpectsMore(apdu)  == "MORE" \in apdu.p2
NonConfirm(apdu)   == apdu.p1 = "NON_CONFIRM"

-----------------------------------------------------------------------------
(* Checks of the frame and of the header. *)

FrameStatus(apdu) ==
  IF apdu.frame = "short" THEN "InvalidMessageSize"
  ELSE IF apdu.cla # "E0" THEN "InvalidMessageHeader"
  ELSE IF apdu.ins \notin Instructions THEN "UnimplementedInstruction"
  ELSE IF apdu.frame = "bad_length" THEN "InvalidMessageSize"
  ELSE "Success"

\* ContinuesCommand without the check of the instruction.
ContinuesAnyInstruction(command, apdu) ==
  /\ command.state = "PayloadInProgress"
  /\ command.non_confirm = NonConfirm(apdu)
  /\ command.num_derivation_paths = 1

\* An EXTEND chunk must continue the very command in progress.
ContinuesCommand(command, apdu) ==
  /\ command.state = "PayloadInProgress"
  /\ command.instruction = apdu.ins
  /\ command.non_confirm = NonConfirm(apdu)
  /\ command.num_derivation_paths = 1

-----------------------------------------------------------------------------
(* The head of a first chunk: number of paths, path length, path. *)

\* read_derivation_path on a buffer that is not NULL.
read_derivation_path(data) ==
  LET failed(status) == [status |-> status, path |-> <<>>, rest |-> <<>>]
      bytes == WordSize * data[1]
  IN  IF data = <<>> THEN failed("InvalidMessageSize")
      ELSE IF data[1] \notin 1..MAX_BIP32_PATH_LENGTH THEN failed("InvalidMessage")
      ELSE IF 1 + bytes > Len(data) THEN failed("InvalidMessageSize")
      ELSE [status |-> "Success",
            path   |-> SubSeq(data, 2, 1 + bytes),
            rest   |-> SubSeq(data, 2 + bytes, Len(data))]

\* A first chunk without data hands read_derivation_path a NULL buffer for
\* GetPubkey; the signing instructions carry the number of paths before it.
FirstChunk(apdu) ==
  LET failed(status) == [status |-> status, path |-> <<>>, rest |-> <<>>]
  IN  IF apdu.ins = "GetPubkey"
      THEN IF apdu.data = <<>> THEN failed("SdkInvalidParameter")
           ELSE read_derivation_path(apdu.data)
      ELSE IF apdu.data = <<>> THEN failed("InvalidMessageSize")
           ELSE IF apdu.data[1] # 1 THEN failed("InvalidMessage")
           ELSE read_derivation_path(Tail(apdu.data))

\* OpenedCommand without the bzero of a first chunk: the old message stays.
OpenedOverOldMessage(command, apdu) ==
  IF IsFirstChunk(apdu)
  THEN [command EXCEPT !.num_derivation_paths = 1,
                       !.derivation_path = FirstChunk(apdu).path]
  ELSE IF apdu.ins \in SignInstructions THEN command
  ELSE EmptyCommand

\* The command the payload goes into: the one in progress for an EXTEND chunk
\* of a signing instruction, a cleared one otherwise, with the path if read.
OpenedCommand(command, apdu) ==
  IF IsFirstChunk(apdu)
  THEN [EmptyCommand EXCEPT !.num_derivation_paths = 1,
                            !.derivation_path = FirstChunk(apdu).path]
  ELSE IF apdu.ins \in SignInstructions THEN command
  ELSE EmptyCommand

Payload(apdu) == IF IsFirstChunk(apdu) THEN FirstChunk(apdu).rest ELSE apdu.data

-----------------------------------------------------------------------------
(* apdu_handle_message: its return code, and the command it leaves.  A     *)
(* refused APDU leaves what handleApdu makes of it, a cleared command.     *)

\* The checks of apdu_handle_message before the payload is copied.
HeadStatus(command, apdu) ==
  IF FrameStatus(apdu) # "Success" THEN FrameStatus(apdu)
  ELSE IF apdu.ins = "GetAppConfiguration" THEN "Success"
  ELSE IF /\ apdu.ins \in SignInstructions
          /\ ~IsFirstChunk(apdu)
          /\ ~ContinuesCommand(command, apdu)
       THEN "InvalidMessage"
  ELSE IF IsFirstChunk(apdu) THEN FirstChunk(apdu).status
  ELSE "Success"

\* MessageStatus when only the new payload is compared with the buffer.
PayloadBoundStatus(command, apdu) ==
  IF HeadStatus(command, apdu) # "Success" THEN HeadStatus(command, apdu)
  ELSE IF apdu.ins \in SignInstructions /\ apdu.data = <<>> THEN "InvalidMessageSize"
  ELSE IF Len(Payload(apdu)) > MAX_MESSAGE_LENGTH THEN "InvalidMessageSize"
  ELSE "Success"

MessageStatus(command, apdu) ==
  IF HeadStatus(command, apdu) # "Success" THEN HeadStatus(command, apdu)
  ELSE IF apdu.ins = "GetAppConfiguration" THEN "Success"
  ELSE IF apdu.ins \in SignInstructions /\ apdu.data = <<>> THEN "InvalidMessageSize"
  ELSE IF Len(OpenedCommand(command, apdu).message) + Len(Payload(apdu))
            > MAX_MESSAGE_LENGTH
       THEN "InvalidMessageSize"
  ELSE "Success"

FilledCommand(command, apdu) ==
  IF apdu.ins = "GetAppConfiguration"
  THEN [EmptyCommand EXCEPT !.state = "PayloadComplete",
                            !.instruction = apdu.ins,
                            !.non_confirm = NonConfirm(apdu)]
  ELSE [OpenedCommand(command, apdu) EXCEPT
          !.state = IF ExpectsMore(apdu) THEN "PayloadInProgress" ELSE "PayloadComplete",
          !.instruction = apdu.ins,
          !.non_confirm = NonConfirm(apdu),
          !.message = @ \o Payload(apdu)]

apdu_handle_message(command, apdu) ==
  IF MessageStatus(command, apdu) = "Success"
  THEN [status |-> "Success", command |-> FilledCommand(command, apdu)]
  ELSE [status |-> MessageStatus(command, apdu), command |-> EmptyCommand]
=============================================================================
