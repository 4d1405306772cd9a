------------------------------ MODULE MCCrawl -------------------------------
(* An instance of Crawl for TLC: the base lists one service and each of    *)
(* its two folders, or its one folder, another.                            *)
EXTENDS Crawl

CONSTANTS s1, s2, s3, l1, l2

TwoFolders == <<{s2}, {s3}>>
OneFolder == <<{s2}>>
=============================================================================
