---------------------------- MODULE MCRpcChannel ----------------------------
(* Small instances of RpcChannel for TLC.                                  *)
EXTENDS RpcChannel

Num(n) == [t |-> "num", n |-> n]
Str(n) == [t |-> "str", n |-> n]

Line(vkey, vval, req, top) == [blank |-> FALSE, vkey |-> vkey, vval |-> vval, req |-> req, top |-> top]

(* The request lines clients send: the canonical strict envelope; a loose *)
(* envelope ("version": "1", externally tagged request); a version        *)
(* mismatch; an out-of-u8 version (257); a legacy bare Request; a bare    *)
(* Request that also carries a wrong "v", or a "request" member but no    *)
(* version; an unsupported request shape;                                *)
(* a blank line.                                                          *)
MCLines ==
    { Line("v", Num(1), "canonical", FALSE),
      Line("version", Str(1), "ext_tagged", FALSE),
      Line("v", Num(2), "canonical", FALSE),
      Line("v", Num(257), "alt_tag", FALSE),
      Line("none", Num(0), "absent", TRUE),
      Line("none", Num(0), "canonical", TRUE),
      Line("v", Num(2), "absent", TRUE),
      Line("v", Num(1), "garbage", FALSE),
      [blank |-> TRUE, vkey |-> "none", vval |-> Num(0), req |-> "absent", top |-> FALSE] }

=============================================================================
