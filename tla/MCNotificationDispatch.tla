------------------------ MODULE MCNotificationDispatch ------------------------
(***************************************************************************)
(* Instances of NotificationDispatch for TLC: the sources that there can   *)
(* be, the payloads that the storage sends, and how often each disturbance *)
(* may happen.                                                             *)
(***************************************************************************)
EXTENDS NotificationDispatch, TLC

Pattern(parts, any) == [parts |-> parts, any |-> any]

Created == [claim |-> "foo", events |-> {Pattern(<<"Created">>, TRUE)},
            sink |-> "http"]
Removed == [claim |-> "foo",
            events |-> {Pattern(<<"Removed", "Delete">>, FALSE),
                        Pattern(<<"Created", "Put">>, FALSE)},
            sink |-> "kafka"]
OtherBucket == [claim |-> "bar", events |-> {Pattern(<<>>, TRUE)},
                sink |-> "http"]

SomeSpecs == {Created, Removed, OtherBucket}

\* As in the documentation, a bucket has the name of its claim.
SameNames == "foo" :> "foo" @@ "bar" :> "bar"

Data(bucket, name) == [bucket |-> bucket, name |-> name]

Mixed == { Data("foo", <<"Created", "Put">>), Data("foo", <<"Created", "Copy">>),
           Data("bar", <<"Removed", "Delete">>) }

CONSTANTS bad, none

SomePayloads == {bad, Mixed}

Limits(s, f, e, k) ==
    ("source" :> s) @@ ("fault" :> f) @@ ("session" :> e) @@ ("crash" :> k)

OneEach    == Limits(1, 1, 1, 1)
OneSession == Limits(0, 0, 1, 0)
=============================================================================
