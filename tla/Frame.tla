------------------------------- MODULE Frame -------------------------------
(***************************************************************************)
(* The framing codec of libmux (libmux/src/frame.c): frames as sequences   *)
(* of bytes.  A byte is a digit below Base, and the fields keep their      *)
(* order and have named widths, so that a small instance has every kind of *)
(* field: one byte, and several bytes most significant first.              *)
(***************************************************************************)
EXTENDS Naturals, SequencesExt

CONSTANTS
  Base,              \* 256 in the code
  Width16,           \* bytes of be_put16 and be_get16
  Width32,           \* bytes of be_put32 and be_get32
  MUX_MAX_PAYLOAD

ASSUME FrameAssumption ==
  /\ Base \in Nat \ {0, 1} /\ Width16 \in Nat \ {0} /\ Width32 \in Nat \ {0}
  /\ MUX_MAX_PAYLOAD \in 0 .. Base ^ Width32 - 1

MUX_VERSION == 1
MUX_HEADER_SIZE == 2 + Width16 + 2 * Width32

\* be_put16, be_put32: the digits of v, most significant first.
be_put(v, w) == [i \in 1 .. w |-> (v \div Base ^ (w - i)) % Base]

\* be_get16, be_get32 at offset o of buf.
be_get(buf, o, w) ==
  FoldLeft(LAMBDA acc, b : acc * Base + b, 0, SubSeq(buf, o + 1, o + w))

mux_craft(f) ==
  <<MUX_VERSION, f.type>> \o be_put(f.flags, Width16) \o be_put(f.sid, Width32)
    \o be_put(Len(f.payload), Width32) \o f.payload

\* The frame at offset o of buf: its verdict, fields, and the view of its payload.
SHORT == [r |-> "SHORT"]
PROTO == [r |-> "PROTO"]

mux_parse(buf, o) ==
  LET sid == 2 + Width16
      plen == be_get(buf, o + sid + Width32, Width32)
  IN IF Len(buf) - o < MUX_HEADER_SIZE THEN SHORT
     ELSE IF buf[o + 1] # MUX_VERSION \/ plen > MUX_MAX_PAYLOAD THEN PROTO
     ELSE IF Len(buf) - o < MUX_HEADER_SIZE + plen THEN SHORT
     ELSE [r |-> "OK", type |-> buf[o + 2], flags |-> be_get(buf, o + 2, Width16),
           sid |-> be_get(buf, o + sid, Width32),
           off |-> o + MUX_HEADER_SIZE, len |-> plen]

View(buf, off, len) == SubSeq(buf, off + 1, off + len)
=============================================================================
