----------------------------- MODULE MCReading -----------------------------
(* Instances of Reading for TLC. *)
EXTENDS Reading
CONSTANTS t1, intro, faq, h1, h2
MCTab == {t1}
MCPost == {intro, faq}
MCTopic == {intro}
MCHeartbeat == {h1, h2}
=============================================================================
