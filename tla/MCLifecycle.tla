----------------------------- MODULE MCLifecycle -----------------------------
(* Small instance of Lifecycle. *)
EXTENDS Lifecycle

So(p) == Library(p.key, <<p>>)

NoConf == [PluginName |-> "", BaseboardPluginName |-> "",
           slotPluginName |-> "", defaultSlot |-> 0, sensor |-> ""]
Conf(comm) == [NoConf EXCEPT !.PluginName = comm]

\* The plugins of the repository, by kind, with a daemon that is not configured.
Unconfigured ==
    {[directory |-> {So(p) : p \in ps}, conf |-> NoConf] :
        ps \in {{CommunicatorAdlink, CommunicatorCongatec, CommunicatorDummy},
                {CommunicatorTCP, LinuxCommunicatorDev,
                 WindowsCommunicatorI2CTinyUSB},
                {LinuxSensorIP, LinuxSensorProviderEth, SensorDummy},
                {SensorFileReader, SensorProviderJetson, SensorProviderSystem},
                {SensorProviderZynq, SensorProviderZynqModule,
                 LinuxSlotDetectorGPIO}}}

\* A plugin from elsewhere: it makes everything, and registers once more
\* what another plugin has.
AnyType == Registration("*", "C", {"Any", "CommunicatorDummy"}, {})
Other == Library("other", <<AnyType, Plugin("CommunicatorDummy", {})>>)
Newer == Library("newer", <<[CommunicatorDummy EXCEPT !.major = 2]>>)

Setup(directory, comm) == [directory |-> directory, conf |-> Conf(comm)]
Dummy == So(CommunicatorDummy)

TheSetups ==
    Unconfigured \cup
    {Setup(NoDirectory, "CommunicatorDummy"),
     Setup({Dummy, Link("alias", Dummy), RelativeLink("broken", Dummy),
            Subdirectory("old"), OtherFile("notes"), NotALibrary("text"),
            NoEntryPoint("libc")}, "CommunicatorDummy"),
     Setup({Dummy, Other, Newer}, "CommunicatorDummy"),
     Setup({Other}, "Any"), Setup({Dummy}, "Missing"), Setup({Dummy}, "*"),
     [directory |-> {Dummy, So(CommunicatorTCP), So(LinuxSlotDetectorGPIO),
                     So(SensorDummy)},
      conf |-> [PluginName |-> "CommunicatorTCP",
                BaseboardPluginName |-> "CommunicatorDummy",
                slotPluginName |-> "LinuxSlotDetectorGPIO",
                defaultSlot |-> 0, sensor |-> "SensorDummy"]]}

TheSlots == {-1, 0, 2}

TheHeaders ==
    LET H(size, slots, version, offset) ==
            [magic |-> TRUE, size |-> size, maxSlots |-> slots,
             version |-> version, dynamicAreaOffset |-> offset]
    IN  {H(100, 1, 3, 20), H(100, 3, 3, 20), H(96, 4, 2, 0), H(22, 1, 3, 20),
         H(16, 2, 3, 20), H(100, 0, 3, 20),
         [H(100, 1, 3, 20) EXCEPT !.magic = FALSE]}
=============================================================================
