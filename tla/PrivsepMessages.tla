--------------------------- MODULE PrivsepMessages ---------------------------
(***************************************************************************)
(* The messages of the private channel between the ordinary-user session   *)
(* core and the privileged device helper (privsep_protocol.h).  A message  *)
(* keeps the fields the two ends decide on.  Times, coordinates, key names *)
(* and output geometry are data neither end branches on and are left out.  *)
(*                                                                         *)
(* The output is a set of Regions.  A damage list is the set of regions it *)
(* covers, and "whole" says the list is the single rectangle that is the   *)
(* whole output.  The packed payload of a frame is sent region by region:  *)
(* a byte offset into it is the set of regions that precede the offset.    *)
(***************************************************************************)
EXTENDS Naturals

CONSTANT Regions

Damage == (SUBSET Regions) \ {{}}

\* Core to helper.
Hello(trusted) == [type |-> "hello", trusted |-> trusted]

Begin(gen, serial, damage, whole, sound) ==
    [type |-> "begin", generation |-> gen, serial |-> serial,
     damage |-> damage, whole |-> whole, sound |-> sound]

Data(gen, serial, offset, region) ==
    [type |-> "data", generation |-> gen, serial |-> serial,
     offset |-> offset, region |-> region]

Commit(gen, serial) == [type |-> "commit", generation |-> gen, serial |-> serial]

Abort(gen, serial) == [type |-> "abort", generation |-> gen, serial |-> serial]

Pong(token) == [type |-> "pong", token |-> token]

ShutdownRequest == [type |-> "shutdown"]

\* Helper to core.
ReadyMessage(gen) == [type |-> "ready", generation |-> gen]

ResumeMessage(gen) == [type |-> "resume", generation |-> gen]

SuspendMessage(gen, abandoned) ==
    [type |-> "suspend", generation |-> gen, abandoned |-> abandoned]

InputMessage(gen) == [type |-> "input", generation |-> gen]

FrameComplete(gen, serial) ==
    [type |-> "complete", generation |-> gen, serial |-> serial]

Ping(token) == [type |-> "ping", token |-> token]

ShutdownAccepted == [type |-> "accepted"]

Fatal(gen) == [type |-> "fatal", generation |-> gen]

(***************************************************************************)
(* Everything a core could put on the wire and the parser would deliver:   *)
(* the helper trusts none of it.  "sound" is the outcome of the arithmetic *)
(* on a damage list: every rectangle lies inside the output and the areas  *)
(* add up to the announced size.                                           *)
(***************************************************************************)
Hellos == {Hello(trusted) : trusted \in BOOLEAN}

Begins(generations, serials) ==
    {m \in [type : {"begin"}, generation : generations, serial : serials,
            damage : Damage, whole : BOOLEAN, sound : BOOLEAN] :
        m.whole => m.damage = Regions /\ m.sound}

Pieces(generations, serials) ==
    {Data(g, s, o, r) :
        g \in generations, s \in serials, o \in SUBSET Regions, r \in Regions}

Ends(generations, serials) ==
    {Commit(g, s) : g \in generations, s \in serials}
        \cup {Abort(g, s) : g \in generations, s \in serials}

Pongs(tokens) == {Pong(t) : t \in tokens}

CoreMessages(generations, serials, tokens) ==
    Hellos \cup {ShutdownRequest} \cup Pongs(tokens)
        \cup Begins(generations, serials) \cup Pieces(generations, serials)
        \cup Ends(generations, serials)

=============================================================================
