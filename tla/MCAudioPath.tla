---------------------------- MODULE MCAudioPath -----------------------------
EXTENDS AudioPath

\* RealtimeConnection.handle_event enqueues with put_nowait().
VllmPuts == {"put_nowait"}
=============================================================================
