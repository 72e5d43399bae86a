---------------------------- MODULE MCUploadQueue ----------------------------
(* Instances of UploadQueue for TLC. *)
EXTENDS UploadQueueProperties

Set(paused, wifiOnly, concurrent, retries) ==
    [paused |-> paused, wifiOnly |-> wifiOnly, concurrent |-> concurrent,
     retries |-> retries]

(* One worker, no retry, so that one failure is final. *)
OneWorker == {Set(FALSE, TRUE, 1, 0)}
OneWorkerOneRetry == {Set(FALSE, TRUE, 1, 1)}
OneOrTwoWorkers == {Set(FALSE, FALSE, 1, 0), Set(FALSE, FALSE, 2, 0)}
NoOptions == {}

(* Two workers and one retry; paused or not, with the Wi-Fi rule and without. *)
WiFiRule == {Set(FALSE, TRUE, 2, 1)}
OptionsSteering == WiFiRule \cup {Set(FALSE, FALSE, 2, 1), Set(TRUE, FALSE, 2, 1)}

OnWiFi     == [online |-> TRUE, wifi |-> TRUE]
OnCellular == [online |-> TRUE, wifi |-> FALSE]

NetworksWiFi == {OnWiFi}
NetworksUpDown == {OnWiFi, Offline}
NetworksAll  == {OnWiFi, OnCellular, Offline}

OriginalContents == {c \in Contents : c.quality = "original"}
NoContents == {}
=============================================================================
