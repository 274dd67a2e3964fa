---------------------------- MODULE MCCompareFrames ----------------------------
EXTENDS CompareFrames

(* No frame, empty frames, and payloads of several reads of the cycle. *)
MCFrameLists == {<<>>, <<0>>, <<3>>, <<0, 5, 0>>, <<1, 4, 2>>, <<7, 1>>}
MCReadSizes == <<1, 3, 2>>

(* Buffers longer and shorter than the payload, chunks that divide neither, *)
(* warm-ups shorter than the payload and of all of it; no byte at all, and  *)
(* chunks of none; payloads below, at and above what Go digests.            *)
MCBenches == [size : {0, 2, 3, 7, 12}, iters : {1, 2}, buf : {4, 5}, chunk : {0, 1, 3, 9}]
=============================================================================
