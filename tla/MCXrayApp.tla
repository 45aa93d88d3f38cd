----------------------------- MODULE MCXrayApp ------------------------------
(* Two servers in the list, each dialed directly or through the bypass.     *)
EXTENDS XrayApp

CONSTANTS tagA, tagB, dirA, dirB, chainA, chainB, only

Direct_   == [tag \in {tagA, tagB} |-> IF tag = tagA THEN dirA ELSE dirB]
Chained_  == [tag \in {tagA, tagB} |-> IF tag = tagA THEN chainA ELSE chainB]
Tag_      == [c \in {dirA, dirB, chainA, chainB, only} |->
                IF c \in {dirA, chainA} THEN tagA ELSE IF c = only THEN "olcrtc-only" ELSE tagB]
=============================================================================
