------------------------------ MODULE Commands ------------------------------
(***************************************************************************)
(* The commands that are a fixed sequence of requests, one definition per  *)
(* execute method: the plans it follows for the arguments it accepts.      *)
(* Commands whose steps interleave with jobs, settings, media or other     *)
(* users have modules of their own.  Left out everywhere: the text of the  *)
(* rows, filters of a document that was read, and save_if_needed.          *)
(***************************************************************************)
EXTENDS Plan

SendAndWatch(expected) == <<Send(expected), Watch>>

(* Accounts, attributes *)
AccountSvc == {<<Read>>}
Accounts == {<<Read>>}
PrivilegeRegistry == {<<Members, Read>>}
\* A name is looked up among the accounts first.
QueryAccount == {<<Read>>, <<Always(Need("TypeError")), Read>>}
\* do_deep reads every link, and no one looks at the status of those.
Attributes == {<<Read>>, <<Need("KeyError")>>, <<Read, Each, Raw("go")>>}
\* The action may come with any of the linked documents.
AttributesClearPending ==
    {<<Always(Need("FailedDiscoverAction")), Fork(5), Raw("go"), End, Raw("FailedDiscoverAction")>>
        \o SendAndWatch(204)}
AttributesUpdate == {SendAndWatch(204)}

(* BIOS and boot sources *)
Bios == {<<Root, Read>>, <<Root, Read, Each, Read>>}
BiosClearPending ==
    {<<Root, Always(Need("FailedDiscoverAction")), Fork(7), Each, Always(Read), End>>
        \o SendAndWatch(200)}
BiosPending == {<<Root, Try>>}
\* The registry under the BIOS, or else the one the BIOS names.
BiosRegistry == {<<Root, Soft, Unless(8), Root, Soft, Else(8), Soft, Root, Try>>}
BootSources == {<<Root, Always(Read)>>}
BootOptions == {<<Root, Read>>}
BootSettings == {<<Root, Try>>}
BootSourceGet == {<<Root, Always(List), Each, Read>>}
BootSourceRegistry == {<<Root, Try>>}
BootSourcePending == {<<Root, Try>>}
BootSourceClearPending == {<<Root>> \o SendAndWatch(204)}
\* The second plan is a source no boot option has the name of.
BootSourceEnable ==
    {<<Root, Always(List)>> \o SendAndWatch(204),
     <<Root, Always(List), End>>,
     <<Root, Always(List)>> \o SendAndWatch(204) \o <<Reboot>>}
Boot == {<<Root, Read>>, <<Root, Read, Each, Raw("go")>>}
CurrentBoot == {<<Root, Always(Read)>>}

(* Chassis, managers, computer systems *)
ChassisQuery == {<<Read>>}
\* The action is read off the attribute _args, which it does not have.
ChassisReset == {<<Always(Need("UnsupportedAction")), Fail("AttributeError")>>}
\* Every specification but the empty one is refused, which then cannot be read.
ChassisUpdate == {<<Fail("InvalidArgument")>>}
Manager == {<<Members, Read>>}
ManagerReset == {<<Members>> \o SendAndWatch(202)}
ConsoleInfo == {<<Always(Try), Each, Try, Row>>}
\* idrac_manager_version decides under which path the settings are.
VersionParts == <<Always(Need("RuntimeError")), Always(Need("AttributeError"))>>
ComputeSetting == {VersionParts \o <<Root, Read>>}
ComputeUpdate == {VersionParts \o <<Root, Read>>}
System == {<<Root, Always(Read)>>, <<Root, Always(Read), Each, Always(Read)>>}
Query == {<<Read>>}

(* Dell OEM and life-cycle controller *)
DellLcApi == {<<Members>> \o SendAndWatch(204)}
DellLcRs == {<<Members>> \o SendAndWatch(204)}
DellLcServices == {<<Read>>}
DellOemActions == {<<Read>>}
DellOemNeeds == <<Always(Need("KeyError"))>>
DellOemAttach == {DellOemNeeds \o SendAndWatch(202)}
DellOemAttachStatus == {DellOemNeeds \o <<Send(204)>>}
DellOemBootNetios == {DellOemNeeds \o SendAndWatch(202)}
DellOemDetach == {DellOemNeeds \o SendAndWatch(200)}
DellOemDisconnect == {DellOemNeeds \o SendAndWatch(200)}
DellOemGetNetworkios ==
    {DellOemNeeds \o SendAndWatch(204), DellOemNeeds \o SendAndWatch(204) \o <<Reboot>>}
DellOemOsDeployment == {<<Read>>}

(* Firmware, jobs, tasks *)
Firmware == {<<Always(Read)>>}
FirmwareInventory == {<<Always(Read)>>}
JobDel == {<<Members>> \o SendAndWatch(204)}
JobDeleteAll == {<<Need("KeyError")>> \o SendAndWatch(200)}
JobDellServices == {<<Read>>}
JobGet == {<<Members, Read>>}
JobWatch == {<<Await>>}
JobServices == {<<Read>>}
TaskService == {<<Raw("go")>>}
TaskGet == {<<Read>>}
TaskWatch == {<<Always(Read), Await>>}
TasksList == {<<Read>>}

(* Inventories that are walks *)
ComponentIntegrity == {<<Try, Each, Leaf, Row>>}
EthernetInterfaces == {<<Each, Always(Try), Gather, Try, Try, Each, Soft, Row>>}
Logs == {<<Each, Always(Try), Gather, Try, Try, Each, Try, Try, Each, Soft, Row>>}
MetricDefinitions == {<<Try, Each, Leaf, Row>>}
MetricReports == {<<Try, Each, Try, Row>>}
NetworkAdapters == {<<List, Each, Try, Try, Each, Leaf, Row>>}
NetworkPorts == {<<List, Each, Try, Try, Each, Try, Try, Each, Soft, Row>>}
NvLinkPorts == {<<Try, Each, Try, Try, Each, Try, Try, Each, Try, Soft, Row>>}
OemInfo == {<<Each, Try, Gather, Try, Row>>}
\* Each device read once more below the chassis when the system names none.
Pci ==
    LET system == <<Root, Fork(8), Try, List, Each, Try, Row>>
        chassis == <<IfNoRow, Try, Each, Try, Try, Each>>
    IN  {system \o chassis \o <<Leaf, Row>>,
         system \o chassis \o <<Try, Try, Each, Soft, Row>>}
SecureBoot ==
    {<<Always(Try), Each, Get(Failures, "skip", "row"), Get(Failures, "row", "row"),
       Each, Soft, Soft, Row>>}
\* Members of the collection are references or carry the reading themselves.
Sensors ==
    {<<List, Each, Try, Try, Each, Row>>, <<List, Each, Try, Try, Each, Try, Row>>}
Triggers == {<<Try, Each, Leaf, Row>>}

(* Storage *)
RaidService == {<<RootName, Always(Get(Failures, "skip", "KeyError"))>>}
Drives == {<<Root, Always(List), Each, Read, Row>>}
StorageControllers == {<<Root, Need("KeyError")>>}
StorageGet == {<<Root, Read>>}
StorageList == {<<Root, Try>>}
\* Nothing to convert, or a request whose answer parse_task_id cannot take:
\* it is handed the pair that base_post returns.
ConvertNoneRaid ==
    {<<NestedRoot, Fork(7), Always(List), Each, Read, End, RootName>>,
     <<NestedRoot, Always(List), Fork(7), Each, Read, End, RootName>>
        \o <<Send(204), Fail("ValueError")>>}
\* find_ids is not imported: nothing is read beyond the list of drives.
ConvertToRaid == {<<NestedRoot, Always(Read), Fail("NameError")>>}
Volumes == {<<Root, Read>>}
VolumeInitialize ==
    {<<Root, Always(Need("UnsupportedAction")), Send(204), Fail("ValueError")>>}
\* vd_list is appended to while it is walked: each volume that is read makes
\* the loop ask for one more, under the text of the document.
VirtualDisk ==
    {<<Root, Always(Get(Failures, "KeyError", "InvalidArgument")),
       Always(List), Each, Always(Get({"absent"}, "skip", "go")), Again>>}

(* System configuration *)
ExportSystemConfig == {SendAndWatch(202)}
\* base_post puts the host in front of an address that has it already: there
\* is no such host, or no such port, so the import never leaves the client.
ImportSystemConfig == {<<Fail("ConnectionError")>>, <<Fail("InvalidURL")>>,
                       <<Fail("InvalidArgument")>>}
\* default_post_success is given self twice.
ImportOneTimeBoot == {<<Post, Fail("TypeError")>>}

\* The entry of each command that main can look up.
AllCommands ==
    [account_svc |-> AccountSvc, accounts |-> Accounts,
     privilege_registry |-> PrivilegeRegistry, account |-> QueryAccount,
     attr |-> Attributes, attr_clear_pending |-> AttributesClearPending,
     attr_update |-> AttributesUpdate, bios |-> Bios,
     bios_clear_pending |-> BiosClearPending, bios_pending |-> BiosPending,
     bios_registry |-> BiosRegistry, boot_sources |-> BootSources,
     boot_options |-> BootOptions, boot_settings |-> BootSettings,
     boot_source_get |-> BootSourceGet, boot_source_registry |-> BootSourceRegistry,
     boot_source_pending |-> BootSourcePending,
     boot_source_clear |-> BootSourceClearPending, boot_source_enable |-> BootSourceEnable,
     boot |-> Boot, current_boot |-> CurrentBoot, chassis |-> ChassisQuery,
     chassis_reset |-> ChassisReset, chassis_update |-> ChassisUpdate,
     manager |-> Manager, manager_reset |-> ManagerReset,
     console_info |-> ConsoleInfo, compute_setting |-> ComputeSetting,
     compute_update |-> ComputeUpdate, system |-> System, query |-> Query,
     dell_lc_api |-> DellLcApi, dell_lc_rs |-> DellLcRs,
     dell_lc |-> DellLcServices, oem_actions |-> DellOemActions,
     oem_attach |-> DellOemAttach, oem_attach_status |-> DellOemAttachStatus,
     oem_boot_netios |-> DellOemBootNetios, oem_detach |-> DellOemDetach,
     oem_disconnect |-> DellOemDisconnect, oem_net_ios |-> DellOemGetNetworkios,
     os_deployment |-> DellOemOsDeployment, firmware |-> Firmware,
     firmware_inventory |-> FirmwareInventory, job_del |-> JobDel,
     job_delete_all |-> JobDeleteAll, job_dell_services |-> JobDellServices,
     job |-> JobGet, job_watch |-> JobWatch, task_watch |-> TaskWatch, job_services |-> JobServices, task_svc |-> TaskService,
     task |-> TaskGet, tasks |-> TasksList, component_integrity |-> ComponentIntegrity,
     ethernet_interfaces |-> EthernetInterfaces, logs |-> Logs,
     metric_definitions |-> MetricDefinitions, metric_reports |-> MetricReports,
     network_adapters |-> NetworkAdapters, network_ports |-> NetworkPorts,
     nvlink_ports |-> NvLinkPorts, oem_info |-> OemInfo, pci |-> Pci,
     secure_boot |-> SecureBoot, sensors |-> Sensors, triggers |-> Triggers,
     raid |-> RaidService, drives |-> Drives, storage_controllers |-> StorageControllers,
     storage_get |-> StorageGet, storage_list |-> StorageList,
     convert_none_raid |-> ConvertNoneRaid, convert_to_raid |-> ConvertToRaid,
     volumes |-> Volumes, volume_init |-> VolumeInitialize, virtual_disk |-> VirtualDisk,
     system_export |-> ExportSystemConfig, system_import |-> ImportSystemConfig,
     one_time_boot |-> ImportOneTimeBoot]
=============================================================================
