----------------------------- MODULE VideoStream -----------------------------
(***************************************************************************)
(* One video track from the publisher's frames to a subscriber's decoder:  *)
(* the tasks that send frames (media/sfu_client.rs), the encoder and the   *)
(* depayloader (media/gst_encoder.rs) and the router between them          *)
(* (sfu/track_router.rs).                                                  *)
(*                                                                         *)
(* Each captured frame is sent by a task of its own, so frames reach the   *)
(* encoder, and samples the track, in any order.  The encoder answers with *)
(* the latest frame it has ready and forgets the ones before it.  A large  *)
(* sample goes as FU-A fragments: the first, those in the middle, which   *)
(* one stands for here, and the last.  Samples that are written at a time  *)
(* interleave packet by packet, and nothing between the publisher and the  *)
(* depayloader keeps packets in order or sends a lost one again.  The      *)
(* depayloader puts fragments together as they come, without looking at    *)
(* their sequence numbers.                                                 *)
(* wire is the way to the router and the way on to the subscriber in one:  *)
(* packets leave it in any order and at any time, or never.                *)
(***************************************************************************)
EXTENDS Naturals, Sequences, FiniteSets

CONSTANTS
    MaxFrames,  \* bound: frames captured
    MaxLosses,  \* bound: packets lost
    MaxTries    \* bound: reads the router tries before its first packet (30)

Frames == 1..MaxFrames

VARIABLES
    sending,   \* frames whose task has not had the encoder yet
    captured,  \* frames captured so far
    inside,    \* samples the encoder has not given out: <<sample, large>>
    encoded,   \* samples made so far; also their names
    writing,   \* the next packet of every sample that is being written
    wire,      \* packets on their way: <<sample, part>>
    router,    \* "waiting", "forwarding" or "over"
    tries,     \* reads that failed while waiting
    joined,    \* the subscriber is there
    buffer,    \* fu_a_buffer: the packets in it
    torn,      \* what else was handed to the decoder
    handed,    \* samples handed to the decoder whole
    alone,     \* history: samples that came in one packet
    came,      \* history: fragments that reached the depayloader, in their order
    gone       \* history: packets that never will

publisher == <<sending, captured, inside, encoded, writing>>
decoder   == <<buffer, torn, handed>>
history   == <<alone, came>>
vars      == <<publisher, wire, router, tries, joined, decoder, history, gone>>

\* "one": a NAL unit in one packet; the others are FU-A fragments.
Parts     == {"one", "start", "middle", "end"}
Packets   == Frames \X Parts

TypeOK ==
    /\ sending \subseteq Frames /\ captured \in 0..MaxFrames
    /\ inside \in Seq(Frames \X BOOLEAN) /\ encoded \in 0..MaxFrames
    /\ joined \in BOOLEAN
    /\ writing \subseteq Packets
    /\ wire \subseteq Packets
    /\ router \in {"waiting", "forwarding", "over"} /\ tries \in 0..MaxTries
    /\ buffer \in Seq(Packets)
    /\ torn \subseteq Seq(Packets)
    /\ handed \subseteq Frames
    /\ alone \subseteq Frames /\ came \in Seq(Packets)
    /\ gone \subseteq Packets

Init ==
    /\ sending = {} /\ captured = 0
    /\ inside = <<>> /\ encoded = 0
    /\ writing = {}
    /\ wire = {}
    /\ router = "waiting" /\ tries = 0 /\ joined = FALSE
    /\ buffer = <<>> /\ torn = {} /\ handed = {}
    /\ alone = {} /\ came = <<>> /\ gone = {}

-----------------------------------------------------------------------------
(* The publisher.                                                          *)

\* A frame of the capture; the view spawns the task that sends it.
Capture ==
    /\ captured < MaxFrames
    /\ captured' = captured + 1
    /\ sending' = sending \cup {captured + 1}
    /\ UNCHANGED <<inside, encoded, writing, wire, router, tries, joined,
                   decoder, history, gone>>

\* The first packet of a sample, and the one after a packet.
FirstOf(s) == <<s[1], IF s[2] THEN "start" ELSE "one">>

After(p) ==
    CASE p[2] = "start"  -> {<<p[1], "middle">>}
      [] p[2] = "middle" -> {<<p[1], "end">>}
      [] OTHER           -> {}

(* The task has the encoder's lock: its frame goes in, and what comes out  *)
(* is the last of the samples that are ready, if any.  An encoder made     *)
(* anew, for frames of another size, has lost what was inside the old one. *)
Encode(f, large, anew) ==
    LET before == IF anew THEN <<>> ELSE inside
        all    == Append(before, <<encoded + 1, large>>)
    IN
    /\ f \in sending
    /\ sending' = sending \ {f}
    /\ encoded' = encoded + 1
    /\ \E ready \in 0..Len(all) :
          /\ inside' = SubSeq(all, ready + 1, Len(all))
          /\ writing' = IF ready = 0 THEN writing
                            ELSE writing \cup {FirstOf(all[ready])}
    /\ UNCHANGED <<captured, wire, router, tries, joined, decoder, history, gone>>

\* No encoder can be made, or the track is gone: the frame goes nowhere.
Fails(f) ==
    /\ f \in sending
    /\ sending' = sending \ {f}
    /\ UNCHANGED <<captured, inside, encoded, writing, wire, router, tries,
                   joined, decoder, history, gone>>

\* write_sample sends a packet; at an error the rest of the sample is not sent.
Write(p) ==
    /\ p \in writing
    /\ \/ writing' = (writing \ {p}) \cup After(p) /\ wire' = wire \cup {p}
       \/ writing' = writing \ {p} /\ UNCHANGED wire
    /\ UNCHANGED <<sending, captured, inside, encoded, router, tries, joined,
                   decoder, history, gone>>

-----------------------------------------------------------------------------
(* The router.                                                             *)

\* add_subscriber; who comes late has missed what was forwarded.
Subscribe ==
    /\ ~joined
    /\ joined' = TRUE
    /\ UNCHANGED <<publisher, wire, router, tries, decoder, history, gone>>

Unsubscribe ==
    /\ joined
    /\ joined' = FALSE
    /\ UNCHANGED <<publisher, wire, router, tries, decoder, history, gone>>

\* read_rtp times out, or has no receiver yet; the router gives up at last.
TryAgain ==
    /\ router = "waiting" /\ wire = {} /\ captured = 0
    /\ tries' = IF tries < MaxTries THEN tries + 1 ELSE tries
    /\ router' = IF tries < MaxTries THEN "waiting" ELSE "over"
    /\ UNCHANGED <<publisher, wire, joined, decoder, history, gone>>

\* The network loses a packet.
Lose(p) ==
    /\ p \in wire
    /\ Cardinality(gone) < MaxLosses
    /\ gone' = gone \cup {p}
    /\ wire' = wire \ {p}
    /\ UNCHANGED <<publisher, router, tries, joined, decoder, history>>

-----------------------------------------------------------------------------
(* depayload_rtp.                                                          *)

\* Mutant of Buffered: a start does not clear what is there.
BufferedOnto(p) == Append(buffer, p)

(* The buffer with a fragment: a start begins anew, a continuation without *)
(* a start is thrown away, any other is put behind what is there.          *)
Buffered(p) ==
    CASE p[2] = "start"                   -> <<p>>
      [] p[2] # "start" /\ buffer = <<>>  -> <<>>
      [] p[2] # "start" /\ buffer # <<>>  -> Append(buffer, p)

Fragments(n) == << <<n, "start">>, <<n, "middle">>, <<n, "end">> >>

Whole(nal) == nal \in {<< <<nal[1][1], "one">> >>, Fragments(nal[1][1])}

\* A NAL unit for the decoder.
Hand(nal) ==
    /\ handed' = IF Whole(nal) THEN handed \cup {nal[1][1]} ELSE handed
    /\ torn' = IF Whole(nal) THEN torn ELSE torn \cup {nal}

Depayload(p) ==
    IF p[2] = "one"
        THEN Hand(<<p>>) /\ UNCHANGED buffer
        ELSE LET now == Buffered(p) IN
             IF p[2] = "end" /\ now # <<>>
                 THEN Hand(now) /\ buffer' = <<>>
                 ELSE buffer' = now /\ UNCHANGED <<torn, handed>>

\* forward_packet, and what the subscriber does with the packet.
Forward(p) ==
    /\ p \in wire /\ router # "over"
    /\ router' = "forwarding"
    /\ wire' = wire \ {p}
    /\ IF joined
           THEN /\ Depayload(p)
                /\ alone' = IF p[2] = "one" THEN alone \cup {p[1]} ELSE alone
                /\ came' = IF p[2] = "one" THEN came ELSE Append(came, p)
                /\ UNCHANGED gone
           ELSE gone' = gone \cup {p} /\ UNCHANGED <<decoder, history>>
    /\ UNCHANGED <<publisher, tries, joined>>

\* The source track is closed.
Closed ==
    /\ router # "over"
    /\ router' = "over"
    /\ UNCHANGED <<publisher, wire, tries, joined, decoder, history, gone>>

Next ==
    \/ Capture
    \/ \E f \in Frames :
          \/ \E large, anew \in BOOLEAN : Encode(f, large, anew)
          \/ Fails(f)
    \/ \E p \in Packets : Write(p) \/ Lose(p) \/ Forward(p)
    \/ Subscribe \/ Unsubscribe \/ TryAgain \/ Closed

Spec == Init /\ [][Next]_vars

-----------------------------------------------------------------------------

\* Its fragments came in their order, and no other's among them.
InARow(n) ==
    \E i \in 1 .. Len(came) - 2 : SubSeq(came, i, i + 2) = Fragments(n)

\* What came from a start to the first end after it, with no other start on the way.
Stretch(nal) ==
    \E i, j \in DOMAIN came :
        /\ nal = SubSeq(came, i, j)
        /\ came[i][2] = "start" /\ came[j][2] = "end"
        /\ \A k \in i + 1 .. j - 1 : came[k][2] = "middle"

(* The samples handed to the decoder whole are the ones that came in one   *)
(* packet and the ones whose fragments came in their order with no other's *)
(* among them, whatever was lost, late or interleaved before and after.    *)
(* Anything else it is handed is what came from one start to the next end: *)
(* packets that are missing, late or of another sample spoil the sample    *)
(* they are in the middle of, and never reach past the next start.         *)
SamplesSurvive ==
    /\ handed = alone \cup {n \in Frames : InARow(n)}
    /\ \A nal \in torn : Stretch(nal)
=============================================================================
