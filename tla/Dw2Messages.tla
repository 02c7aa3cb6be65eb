------------------------------ MODULE Dw2Messages ------------------------------
(***************************************************************************)
(* The messages of the protocol, core/protocol.h: the byte of each type,   *)
(* its fields and their sizes, as core/protocol.c has them.  The C code    *)
(* writes the fields of a message in one function, reads them in another,  *)
(* and has a table of their sizes in a third; so has this module, and that *)
(* the three agree is for the runs and the proofs to say.                  *)
(***************************************************************************)
EXTENDS Integers, Sequences

MaxToken     == 200   \* DW2_MAX_TOKEN
MaxAuthToken == 900   \* DW2_MAX_AUTH_TOKEN
MaxParts     == 36    \* DW2_WIRE_MAX_PARTS
MaxEvents    == 60    \* DW2_WIRE_MAX_EVENTS

Byte    == 0 .. 255
Short   == {n \in Nat : n < 65536}
NameLen == 16                        \* DW2_NAME_LEN

TypeByte ==
  [HELLO |-> 1, AUTH |-> 2, QUEUE |-> 3, PLACE |-> 4, PANIC_CUT |-> 5, READY |-> 6,
   LEAVE |-> 7, PING |-> 8, ROUND_CALL |-> 9,
   WELCOME |-> 129, QUEUED |-> 130, MATCH_FOUND |-> 131, PLACE_ACK |-> 132,
   PLACE_REJECT |-> 133, CUT_ACK |-> 134, CUT_REJECT |-> 135, COMBAT_START |-> 136,
   TICK |-> 137, MATCH_END |-> 138, PONG |-> 139, ROUND_BREAK |-> 140,
   ROUND_RESULT |-> 141, OPP_SHIP |-> 144, OPP_CUT |-> 145, EVENTS |-> 146, ERROR |-> 143]

Types == DOMAIN TypeByte

-----------------------------------------------------------------------------
(* Fields: a name and a width; width NameLen is a name, padded with zeros, *)
(* and a number of width 4 is its two halves, low and high.                *)

U8(name)  == <<name, 1>>
U16(name) == <<name, 2>>
U32(name) == <<name, 4>>
Text(name) == <<name, NameLen>>

\* The fields dw2_encode writes, in order.
Written ==
  [HELLO |-> <<U8("proto"), U8("kind"), Text("name"), U8("token_len")>>,
   AUTH |-> <<U16("token_len")>>,
   QUEUE |-> <<>>, READY |-> <<>>, LEAVE |-> <<>>,
   PLACE |-> <<U8("item_id"), U8("anchor_row"), U8("anchor_col"), U8("rotation")>>,
   PANIC_CUT |-> <<U8("placement_idx")>>,
   PING |-> <<U32("nonce")>>, PONG |-> <<U32("nonce")>>,
   WELCOME |-> <<U32("session_id"), U8("flags")>>,
   QUEUED |-> <<U16("waiting")>>,
   MATCH_FOUND |-> <<U32("match_id"), U32("seed"), U8("seat"), Text("opp_name"),
                     U8("opp_kind"), U32("pack_ms")>>,
   PLACE_ACK |-> <<U8("placement_idx")>>, PLACE_REJECT |-> <<U8("reason")>>,
   CUT_ACK |-> <<U8("placement_idx")>>, CUT_REJECT |-> <<U8("reason")>>,
   COMBAT_START |-> <<U8("hull_you"), U8("hull_opp"), U16("armor_you"), U16("armor_opp"),
                      U16("cargo_you"), U16("cargo_opp")>>,
   TICK |-> <<U8("elapsed_ticks"), U8("hull_you"), U8("hull_opp"), U16("armor_you"),
              U16("armor_opp"), U8("shatter_you"), U8("shatter_opp")>>,
   MATCH_END |-> <<U32("match_id"), U8("result"), U8("reason"), U8("ticks")>>,
   ROUND_BREAK |-> <<U8("round_no"), U8("behind"), U16("target_ms"), U16("budget_ms")>>,
   ROUND_CALL |-> <<U8("call")>>,
   ROUND_RESULT |-> <<U8("your_call"), U8("your_grade"), U8("your_effect"),
                      U8("opp_call"), U8("opp_grade"), U8("opp_effect")>>,
   OPP_SHIP |-> <<U8("n")>>, OPP_CUT |-> <<U8("placement_idx")>>,
   EVENTS |-> <<U8("tick"), U8("n"), U8("dropped"), U16("structure_you"),
                U16("structure_opp")>>,
   ERROR |-> <<U8("code")>>]

\* Mutant: MATCH_END is read back with two of its bytes exchanged.
ReadSwapped ==
  [Written EXCEPT !.MATCH_END = <<U32("match_id"), U8("reason"), U8("result"), U8("ticks")>>]

\* The fields dw2_decode reads, in order.
Read ==
  [HELLO |-> <<U8("proto"), U8("kind"), Text("name"), U8("token_len")>>,
   AUTH |-> <<U16("token_len")>>,
   QUEUE |-> <<>>, READY |-> <<>>, LEAVE |-> <<>>,
   PLACE |-> <<U8("item_id"), U8("anchor_row"), U8("anchor_col"), U8("rotation")>>,
   PANIC_CUT |-> <<U8("placement_idx")>>,
   PING |-> <<U32("nonce")>>, PONG |-> <<U32("nonce")>>,
   WELCOME |-> <<U32("session_id"), U8("flags")>>,
   QUEUED |-> <<U16("waiting")>>,
   MATCH_FOUND |-> <<U32("match_id"), U32("seed"), U8("seat"), Text("opp_name"),
                     U8("opp_kind"), U32("pack_ms")>>,
   PLACE_ACK |-> <<U8("placement_idx")>>, PLACE_REJECT |-> <<U8("reason")>>,
   CUT_ACK |-> <<U8("placement_idx")>>, CUT_REJECT |-> <<U8("reason")>>,
   COMBAT_START |-> <<U8("hull_you"), U8("hull_opp"), U16("armor_you"), U16("armor_opp"),
                      U16("cargo_you"), U16("cargo_opp")>>,
   TICK |-> <<U8("elapsed_ticks"), U8("hull_you"), U8("hull_opp"), U16("armor_you"),
              U16("armor_opp"), U8("shatter_you"), U8("shatter_opp")>>,
   MATCH_END |-> <<U32("match_id"), U8("result"), U8("reason"), U8("ticks")>>,
   ROUND_BREAK |-> <<U8("round_no"), U8("behind"), U16("target_ms"), U16("budget_ms")>>,
   ROUND_CALL |-> <<U8("call")>>,
   ROUND_RESULT |-> <<U8("your_call"), U8("your_grade"), U8("your_effect"),
                      U8("opp_call"), U8("opp_grade"), U8("opp_effect")>>,
   OPP_SHIP |-> <<U8("n")>>, OPP_CUT |-> <<U8("placement_idx")>>,
   EVENTS |-> <<U8("tick"), U8("n"), U8("dropped"), U16("structure_you"),
                U16("structure_opp")>>,
   ERROR |-> <<U8("code")>>]

\* payload_size: the types it does not name are of variable size.
PayloadSize ==
  [QUEUE |-> 0, READY |-> 0, LEAVE |-> 0, PLACE |-> 4, PANIC_CUT |-> 1, PING |-> 4, PONG |-> 4,
   WELCOME |-> 5, QUEUED |-> 2, MATCH_FOUND |-> 30, PLACE_ACK |-> 1, PLACE_REJECT |-> 1,
   CUT_ACK |-> 1, CUT_REJECT |-> 1, COMBAT_START |-> 10, TICK |-> 9, MATCH_END |-> 7,
   ROUND_BREAK |-> 6, ROUND_CALL |-> 1, ROUND_RESULT |-> 6,
   OPP_SHIP |-> 1 + 4 * MaxParts, OPP_CUT |-> 1, ERROR |-> 1]
================================================================================
