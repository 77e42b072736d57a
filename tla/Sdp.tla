-------------------------------- MODULE Sdp --------------------------------
(***************************************************************************)
(* parseSDPInfo of pkg/rtsp/client.go: the tracks and the aggregate control *)
(* URL of a session description.  A line is a record whose kind is         *)
(* "control", "media", "rtpmap", "fmtp" or another; a URL is whether it is *)
(* absolute and its path, a sequence of names.                             *)
(***************************************************************************)
EXTENDS Integers, SequencesExt

NoURL     == [absolute |-> FALSE, path |-> << >>]
Star      == [absolute |-> FALSE, path |-> <<"*">>]
NoPayload == -1

\* Package net/url: the base ends in a slash, so the reference is appended.
ResolveReference(base, ref) == [base EXCEPT !.path = @ \o ref.path]

resolveControlURL(contentBase, requestURL, control) ==
  LET base == IF contentBase # NoURL THEN contentBase ELSE requestURL
  IN  IF control = Star THEN base
      ELSE IF control.absolute \/ base = NoURL THEN control
      ELSE ResolveReference(base, control)

\* A track without a control URL is forgotten.
flushCurrent(s) ==
  [s EXCEPT !.current = << >>,
            !.tracks  = IF s.current # << >> /\ s.current[1].control # NoURL
                        THEN Append(@, s.current[1]) ELSE @]

\* An attribute counts for the payload type of the m= line, or for any when
\* that one is not a number.
Concerns(s, line) ==
  s.current # << >> /\ (s.current[1].payload \in {NoPayload, line.payload})

\* Mutant: a malformed m= line leaves the track before it open.
MediaLineUnflushed(s, line) ==
  IF line.fields < 4 THEN s
  ELSE [flushCurrent(s) EXCEPT !.current =
          <<[media |-> line.media, payload |-> line.payload, control |-> NoURL,
             codec |-> "", fmtp |-> << >>]>>]

\* After an m= line with too few fields no track is open.
MediaLine(s, line) ==
  IF line.fields < 4 THEN flushCurrent(s)
  ELSE [flushCurrent(s) EXCEPT !.current =
          <<[media |-> line.media, payload |-> line.payload, control |-> NoURL,
             codec |-> "", fmtp |-> << >>]>>]

ControlLine(s, line, contentBase, requestURL) ==
  LET resolved == resolveControlURL(contentBase, requestURL, line.url)
  IN  IF line.url = NoURL THEN s
      ELSE IF line.url = Star \/ s.current = << >>
      THEN [s EXCEPT !.aggregate = resolved]
      ELSE [s EXCEPT !.current[1].control = resolved]

\* The parameters of a line are put over those of earlier lines.
Assigned(new, old) ==
  [name \in DOMAIN new \cup DOMAIN old |-> IF name \in DOMAIN new THEN new[name] ELSE old[name]]

NextLine(s, line, contentBase, requestURL) ==
  CASE line.kind = "control" -> ControlLine(s, line, contentBase, requestURL)
    [] line.kind = "media"   -> MediaLine(s, line)
    [] line.kind = "rtpmap" /\ Concerns(s, line) -> [s EXCEPT !.current[1].codec = line.codec]
    [] line.kind = "fmtp" /\ Concerns(s, line) ->
         [s EXCEPT !.current[1].fmtp = Assigned(line.parameters, @)]
    [] OTHER -> s

\* None when there is neither a track nor an aggregate control.
parseSDPInfo(lines, contentBase, requestURL) ==
  LET after[k \in 0 .. Len(lines)] ==
        IF k = 0 THEN [tracks |-> << >>, current |-> << >>, aggregate |-> NoURL]
        ELSE NextLine(after[k - 1], lines[k], contentBase, requestURL)
      end == flushCurrent(after[Len(lines)])
      aggregate == IF end.aggregate = NoURL THEN NoURL
                   ELSE resolveControlURL(contentBase, requestURL, end.aggregate)
  IN  IF end.tracks = << >> /\ aggregate = NoURL THEN << >>
      ELSE <<[tracks |-> end.tracks, aggregate |-> aggregate]>>
=============================================================================
