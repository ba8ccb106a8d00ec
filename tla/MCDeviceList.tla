----------------------------- MODULE MCDeviceList -----------------------------
(* Devices move between two hubs while one client asks for the list; the other
   one redirects, so that the control device is busy in between.              *)
EXTENDS DeviceList, TLC

CONSTANTS c1, c2

CallsOf == c1 :> {"list"} @@ c2 :> {"redirect", "stop"}
================================================================================
