-------------------------------- MODULE MCHost ------------------------------
(***************************************************************************)
(* The tools around the bridge, in one instance: each behaviour is one of  *)
(* one of them, and the state of the others stays what it was.  They share *)
(* no state; what they share is code (SDP, UUIDs, advertising data).       *)
(***************************************************************************)
EXTENDS CaptureSession, MCTraffic, PassiveSensors, MCBroadcasts,
        BridgeConfig, MCBridgeConfig, GattClient, MCNumbers, FridaCapture, AsyncBridge,
        AppUi

\* Screens of an app: the power button moves and is renamed; a row's id has the word
\* too, and one that is scrolled half out of the screen cannot be tapped.
View(text, id, bounds) ==
  [text |-> text, desc |-> {}, resource_id |-> id, bounds |-> bounds, clickable |-> id = {}]
MCScreens ==
  [home     |-> <<View({}, {"power"}, <<0, 0, 9, 3>>), View({"power"}, {}, <<0, 0, 4, 3>>),
                  View({"light"}, {}, <<4, 0, 9, 3>>)>>,
   scrolled |-> <<View({"light"}, {}, <<0, -2, 4, 1>>), View({"power"}, {}, <<4, 1, 9, 4>>)>>,
   loading  |-> <<View({"light"}, {}, <<>>)>>]
MCQueries ==
  [label : {"power", "light"}, fields : {{"text"}, {"text", "desc", "resource_id"}}]

VARIABLE part   \* the tool that runs

Parts == {"session", "sensors", "config", "numbers", "gatt", "frida", "async", "ui"}

HostInit ==
  /\ part \in Parts
  /\ SessionInit /\ BridgeConfigInit /\ NumbersInit /\ GattInit /\ FridaInit /\ AsyncInit
  /\ UiInit /\ (part # "ui" => screen = "home")
  /\ SensorInit
  /\ part # "sensors" => integration = "meter"

Only(tool, next) == part = tool /\ next /\ UNCHANGED part

HostNext ==
  \/ Only("session", SessionNext)
       /\ UNCHANGED <<sensorVars, bridgeConfigVars, numbersVars, gattVars, fridaVars,
                      asyncVars, uiVars>>
  \/ Only("sensors", SensorNext)
       /\ UNCHANGED <<sessionVars, bridgeConfigVars, numbersVars, gattVars, fridaVars,
                      asyncVars, uiVars>>
  \/ Only("config", BridgeConfigNext)
       /\ UNCHANGED <<sessionVars, sensorVars, numbersVars, gattVars, fridaVars,
                      asyncVars, uiVars>>
  \/ Only("numbers", NumbersNext)
       /\ UNCHANGED <<sessionVars, sensorVars, bridgeConfigVars, gattVars, fridaVars,
                      asyncVars, uiVars>>
  \/ Only("gatt", GattNext)
       /\ UNCHANGED <<sessionVars, sensorVars, bridgeConfigVars, numbersVars, fridaVars,
                      asyncVars, uiVars>>
  \/ Only("frida", FridaNext)
       /\ UNCHANGED <<sessionVars, sensorVars, bridgeConfigVars, numbersVars, gattVars,
                      asyncVars, uiVars>>
  \/ Only("async", AsyncNext)
       /\ UNCHANGED <<sessionVars, sensorVars, bridgeConfigVars, numbersVars, gattVars,
                      fridaVars, uiVars>>
  \/ Only("ui", UiNext)
       /\ UNCHANGED <<sessionVars, sensorVars, bridgeConfigVars, numbersVars, gattVars,
                      fridaVars, asyncVars>>

hostVars == <<part, sessionVars, sensorVars, bridgeConfigVars, numbersVars, gattVars, fridaVars,
              asyncVars, uiVars>>

HostSpec == HostInit /\ [][HostNext]_hostVars
=============================================================================
