---------------------------- MODULE MCChatRecord ----------------------------
(* ChatRecord: a patient user with and without a picture, a patient one whose *)
(* pages have two pictures or a lost one, and one who does not wait.          *)
EXTENDS ChatRecord

\* Pages of two rows of five messages, two of them in the same second.
MessageTimes == <<1, 2, 2, 3, 4>>

Reader(patient, pictures, lost) == [patient |-> patient, pictures |-> pictures, lost |-> lost]

Readers ==
  {Reader(TRUE, {}, {}), Reader(TRUE, {3}, {}), Reader(TRUE, {2, 3}, {3}), Reader(FALSE, {}, {})}
=============================================================================
