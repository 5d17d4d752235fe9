--------------------------- MODULE MCWebSocketHub ---------------------------
(* WebSocketHub with two clients, who ask for what may interfere.          *)
EXTENDS WebSocketHub

CONSTANTS c1, c2, s1, s2, r1, r2

MCClients == {c1, c2}
MCStreams == {s1, s2}
MCReads   == {r1, r2}
MCUses    == {{"event", "pm2Metrics"}, {"systemMetrics", "pm2Metrics", "zabbixPush"}, {"log"}, {"mirror"}}
=============================================================================
