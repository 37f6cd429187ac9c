--------------------------- MODULE MCGuiService ---------------------------
(* Instances of GuiService.  Long queues with one upset, two device        *)
(* changes around one request and the telemetry timer, and the service     *)
(* installed or removed around one device change are each affordable;      *)
(* together they are not.                                                  *)
EXTENDS GuiService

UseAndDevice ==
    {[works |-> 3, upsets |-> 1,
      happens |-> {"device", "restart", "fault", "refresh", "close"}],
     [works |-> 1, upsets |-> 2, happens |-> {"device", "telemetry"}],
     [works |-> 1, upsets |-> 1, happens |-> {"device", "telemetry", "admin"}]}

DeviceOnly == {[works |-> 0, upsets |-> 2, happens |-> {"device"}]}
=============================================================================
