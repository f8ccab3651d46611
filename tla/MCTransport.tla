---------------------------- MODULE MCTransport ----------------------------
(***************************************************************************)
(* Transport for two kinds of session: one with a content that has an RTP  *)
(* and an RTCP channel, and one that bundles two contents.                 *)
(***************************************************************************)
EXTENDS Transport

CONSTANTS audio, video

MCContents == <<audio, video>>
MCComponents == <<1, 2>>
RtpAndRtcp == {<<audio, 1>>, <<audio, 2>>}
TwoContents == {<<audio, 1>>, <<video, 1>>}
MCSlotSets == {RtpAndRtcp, TwoContents}
MCMaxEvents == [S \in MCSlotSets |-> IF S = RtpAndRtcp THEN 1 ELSE 0]
MCBundle == <<audio, video>>

=============================================================================
